---- MODULE Spec2Model ----
(***************************************************************************)
(* A model of the netmachines crate: the Next/Intent fold (next.rs), the   *)
(* TransportMachine driven by reactor callbacks (net/machines.rs) and the  *)
(* cross-thread signalling primitives duct, gate and trigger (sync.rs).    *)
(*                                                                         *)
(* Spec        one TransportMachine: create, ready, timeout, wakeup        *)
(* SpecDuct    DuctSender clones and one DuctReceiver                      *)
(* SpecGate    one GateSender and one GateReceiver                         *)
(* SpecTrigger TriggerSender clones and one TriggerReceiver                *)
(***************************************************************************)
EXTENDS Integers, Sequences, FiniteSets

\* ------------------------------------------------------------------ bounds
\* Latest value of the reactor clock (scope.now()).
MaxTime == 2
\* Longest relative timeout a handler attaches to a Next.
MaxDur == 2
\* Number of callbacks delivered to one TransportMachine after its creation.
MaxCallbacks == 2

\* DuctSender clones, and send calls made on them in all.
NDuctSenders == 2
MaxSends == 3
\* Values a GateSender can hand over, and try_get calls of the receiver.
NValues == 3
MaxPolls == 4
\* TriggerSender clones, and trigger calls made on them in all.
NTrigSenders == 3
MaxTriggers == 5

\* Connections that reach the accept socket of a ServerMachine, and the seeds
\* its accept handler chooses among.
MaxConns == 4
NSeeds == 2
MaxRequests == 2
MaxSpawns == 2
MaxMachines == 3

\* Option::None for an Option<Time> or Option<Duration>.
NoTime == -1

\* ------------------------------------------------------------ next.rs: Next
\* enum Interest
Interests == {"Wait", "Read", "Write", "ReadWrite"}

Durations == 1..MaxDur

\* Next { interest: Option<(Interest, T)>, timeout: Option<Duration> };
\* interest None is written "Remove".
Next_new(interest) == [interest |-> interest, timeout |-> NoTime]

Next_remove == [interest |-> "Remove", timeout |-> NoTime]

Next_timeout(next, duration) == [next EXCEPT !.timeout = duration]

\* The answers a handler hook can give.
NextValues ==
    {Next_new(i) : i \in Interests}
      \cup {Next_timeout(Next_new(i), d) : i \in Interests, d \in Durations}
      \cup {Next_remove}

\* ---------------------------------------------------------- next.rs: Intent
\* The None of the Option<(Intent, T)> that Intent::new and Intent::merge
\* return for Next::remove().
NoIntent == [interest |-> "None", deadline |-> NoTime]

Intent_make(interest, deadline) == [interest |-> interest, deadline |-> deadline]

Min(a, b) == IF a <= b THEN a ELSE b

Intent_new(next, tnow) ==
    LET dl == IF next.timeout = NoTime THEN NoTime ELSE tnow + next.timeout
    IN  IF next.interest = "Remove" THEN NoIntent
        ELSE Intent_make(next.interest, dl)

\* A plausible slip: the arms of the match tried in the wrong order, so that
\* Read wins over a later Write.
Join_ReadFirst(a, b) ==
    IF a = "Read" \/ b = "Read" THEN "Read"
    ELSE IF a = "ReadWrite" \/ b = "ReadWrite" THEN "ReadWrite"
    ELSE IF a = "Write" \/ b = "Write" THEN "Write"
    ELSE "Wait"

\* A plausible slip: the handler's latest answer replaces the interest.
Join_Latest(a, b) == b

\* The match on (self.interest, interest) of Intent::merge, arm by arm.
Join(a, b) ==
    IF \/ a = "ReadWrite" \/ b = "ReadWrite"
       \/ (a = "Read" /\ b = "Write") \/ (a = "Write" /\ b = "Read")
    THEN "ReadWrite"
    ELSE IF a = "Read" \/ b = "Read" THEN "Read"
    ELSE IF a = "Write" \/ b = "Write" THEN "Write"
    ELSE "Wait"

\* A plausible slip: a fold without timeout clears the pending deadline.
MergeDeadline_ClearOnNone(deadline, timeout, tnow) ==
    IF timeout = NoTime THEN NoTime
    ELSE IF deadline # NoTime THEN Min(deadline, tnow + timeout)
    ELSE tnow + timeout

\* The match on (self.deadline, other.timeout) of Intent::merge.
MergeDeadline(deadline, timeout, tnow) ==
    IF deadline # NoTime /\ timeout # NoTime THEN Min(deadline, tnow + timeout)
    ELSE IF timeout # NoTime THEN tnow + timeout
    ELSE deadline

\* A plausible slip: Next::remove() treated like Next::wait().
Intent_merge_IgnoreRemove(self, other, tnow) ==
    Intent_make(IF other.interest = "Remove" THEN self.interest
                ELSE Join(self.interest, other.interest),
                MergeDeadline(self.deadline, other.timeout, tnow))

\* A plausible slip: the fresh deadline replaces the pending one.
Intent_merge_LatestDeadline(self, other, tnow) ==
    IF other.interest = "Remove" THEN NoIntent
    ELSE Intent_make(Join(self.interest, other.interest),
                     IF other.timeout # NoTime THEN tnow + other.timeout
                     ELSE self.deadline)

Intent_merge(self, other, tnow) ==
    IF other.interest = "Remove" THEN NoIntent
    ELSE Intent_make(Join(self.interest, other.interest),
                     MergeDeadline(self.deadline, other.timeout, tnow))

\* EventSet of an Intent.
Intent_events(self) ==
    CASE self.interest = "Wait" -> {}
      [] self.interest = "Read" -> {"readable"}
      [] self.interest = "Write" -> {"writable"}
      [] self.interest = "ReadWrite" -> {"readable", "writable"}

\* ------------------------------------------------------------------- state
VARIABLES
    \* TransportMachine: "seed" (not yet created), "live" (Response::ok),
    \* "done" (Response::done), "error" (Response::error).
    machine,
    \* TransportMachine.intent
    intent,
    \* scope.now()
    now,
    \* TransportMachine.sock.blocked(): "None", "Read" or "Write".
    blocked,
    \* The EventSet the socket is registered for with the reactor, as set by
    \* the last scope.register or scope.reregister call.
    registered,
    \* Calls of scope.register, scope.reregister and scope.deregister made by
    \* the machine.
    nRegister, nReregister, nDeregister,
    \* The EventSet handed to the last ready callback.
    delivered,
    \* The callback whose Response the reactor holds ("none" while it polls)
    \* and the handler hooks that callback invoked, in order:
    \* [hook, next, pre, now, res], the hook's name, its answer, the intent
    \* before the fold, the time of the fold and the fold's result.
    callback, calls,
    \* ---- duct (sync.rs): the mpsc channel (ids of the items in it), the
    \* shared flag `awake`, whether the DuctReceiver exists, and the
    \* wakeups the notifier has queued for the receiver's machine.
    dQueue, dAwake, dRxAlive, dNotified,
    \* Each sender clone's place in send ("idle", "swap", "wakeup") and the
    \* id of the item it is sending; the receiver's place in its drain
    \* ("idle", "store", "rx", and "late_some" or "late_none" when the load of
    \* the channel came before the store to the flag).
    dSend, dRecv,
    \* Items enqueued and taken so far, and the ids whose send returned Ok.
    dSent, dTaken, dOk,
    \* Since the receiver last cleared the flag: items enqueued, wakeup
    \* calls made, and whether no send was under way at that clearing.
    dSentSince, dWakeSince, dQuiet,
    \* ---- gate (sync.rs): the slot behind the mutex (0 is None), the
    \* sender's place in send ("idle", "locked", "done"), the value it was
    \* given, what send returned, and the wakeups queued.
    gItem, gSend, gValue, gRet, gNotified,
    \* What each try_get so far returned: [got, stored, woken], the value (0
    \* for None), whether send had stored its value by then, and whether the
    \* call was made in a wakeup callback.
    gPolls,
    \* ---- trigger (sync.rs): the shared flag, each sender clone's place in
    \* trigger ("idle", "wakeup") with the position of its swap among all
    \* swaps and what its last call returned, and the wakeups queued.
    tFlag, tSend, tNotified,
    \* trigger calls that swapped and that returned, wakeup calls made, and
    \* the position of the swap of the call that made the wakeup call, and
    \* the wakeup calls that succeeded.
    tSwapped, tReturned, tWakeCalls, tWaker, tIssued,
    \* ---- ServerMachine (net/machines.rs), accept flavour: "new" (before
    \* ServerMachine::new), "Listening", "done" or "error"; whether the
    \* reactor holds a Response::spawn of it and owes it the spawned callback.
    srvMachine, srvPhase,
    \* The connection requests pending on the accept socket (their ids) and
    \* the number of requests that have arrived so far.
    srvBacklog, srvArrived,
    \* The answers of the accept handler, in order: [conn, seed], seed 0 for
    \* None; and the seeds handed to the reactor with Response::spawn:
    \* [sock, seed].
    srvLog, srvSpawned,
    \* The last callback of the listener: [cb, fired, queued, res, ret], its
    \* name, the trigger's flag when it began, whether a queued wakeup was
    \* delivered by it, what accept() returned ("conn", "none", "err", or
    \* "skipped" when accept was not called) and the Response ("ok", "spawn",
    \* "done", "error").
    srvLast,
    \* ---- RequestMachine (machines.rs), request flavour: "req" or "done".
    rqMachine,
    \* The DuctSender clones of its duct that have not been dropped.
    dTxLive,
    \* The request try_recv handed to process_requests (0 for none) and the
    \* number of callbacks delivered to the machine.
    rqItem, rqCalls,
    \* The requests passed to the handler, in order: [id, outcome, cb], with
    \* outcome "None" (the handler dropped it), "Ok" or "Err" (what
    \* SeedFactory::translate returned) and the callback that handled it.
    rqLog,
    \* The requests for which Response::spawn was returned and those for which
    \* the handler's error hook was called, in order.
    rqSpawned, rqErrors,
    \* ---- ServerMachine, connection flavour: for each machine the reactor
    \* has created from a seed the listener spawned, in order, the flavour
    \* it has ("Listening" or "Connected", or "done" or "error" once it has
    \* ended) and the callback that returned it.
    srvConns,
    \* ---- composed machines (compose.rs, net/clear.rs): the machine type of
    \* the loop ("none", "Compose3" or "TcpUdp"); for each machine created,
    \* the tag of its seed and the branch it is in ("done" or "error" once
    \* ended); the seed the reactor has been asked to spawn and the branch of
    \* the machine that asked; and the machine a spawned callback is due to.
    cmpKind, cmpMachines, cmpSeed, cmpDue,
    \* ---- DgramHandler (examples/pinkyd.rs) on its TransportMachine: "live"
    \* or "removed"; the field `send` (0 for None); the interest the machine
    \* has folded from the handler's answers; and the responses send_to has
    \* accepted, in order. Its duct is the duct above.
    dgMachine, dgSend, dgInterest, dgOut

tmVars == <<machine, intent, now, blocked, registered, nRegister, nReregister,
            nDeregister, delivered, callback, calls>>

ductVars == <<dQueue, dAwake, dRxAlive, dNotified, dSend, dRecv, dSent, dTaken,
              dOk, dSentSince, dWakeSince, dQuiet>>

ductVarsButRecv == <<dQueue, dAwake, dRxAlive, dNotified, dSend, dSent, dTaken,
                     dOk, dSentSince, dWakeSince, dQuiet>>

gateVars == <<gItem, gSend, gValue, gRet, gNotified, gPolls>>

trigVars == <<tFlag, tSend, tNotified, tSwapped, tReturned, tWakeCalls, tWaker,
              tIssued>>

connVars == <<srvConns>>

cmpVars == <<cmpKind, cmpMachines, cmpSeed, cmpDue>>

dgVars == <<dgMachine, dgSend, dgInterest, dgOut>>

srvVars == <<srvMachine, srvPhase, srvBacklog, srvArrived, srvLog, srvSpawned,
             srvLast>>

reqVars == <<rqMachine, dTxLive, rqItem, rqCalls, rqLog, rqSpawned, rqErrors>>

vars == <<tmVars, ductVars, gateVars, trigVars, srvVars, reqVars, connVars,
          cmpVars, dgVars>>

\* ------------------------------------------- sockets/mod.rs: Transport, EventSet
\* enum Blocked, wrapped in the Option that Transport::blocked returns.
BlockedStates == {"None", "Read", "Write"}

\* The bits of a rotor EventSet the machine looks at.
EventKinds == {"readable", "writable", "error"}

\* One entry of the record of hooks.
Call(hook, next, pre, res) ==
    [hook |-> hook, arg |-> "none", next |-> next, pre |-> pre, now |-> now,
     res |-> res]

\* An entry for the error hook, with the Error it is handed.
ErrorCall(err, next, pre, res) ==
    [Call("error", next, pre, res) EXCEPT !.arg = err]

\* ------------------------------------------- net/machines.rs: TransportMachine
\* A plausible slip: next() re-registers for the handler's events and leaves
\* the socket's blocked state aside.
NextEvents_IntentOnly(sockBlocked, self) == Intent_events(self)

\* The events TransportMachine::next re-registers for.
NextEvents(sockBlocked, self) ==
    CASE sockBlocked = "Read" -> {"readable"}
      [] sockBlocked = "Write" -> {"writable"}
      [] OTHER -> Intent_events(self)

\* TransportMachine::next followed by TransportMachine::response: re-register
\* (which may fail) and return Response::ok, with the intent's deadline.
TransportMachine_next(self, sockBlocked, regOk) ==
    /\ nReregister' = nReregister + 1
    /\ blocked' = sockBlocked
    /\ UNCHANGED nDeregister
    /\ IF regOk
       THEN /\ machine' = "live"
            /\ intent' = self
            /\ registered' = NextEvents(sockBlocked, self)
       ELSE /\ machine' = "error"
            /\ intent' = NoIntent
            /\ UNCHANGED registered

\* return Response::done(): the machine, its handler and its socket are
\* dropped; the reactor is not called.
ResponseDone ==
    /\ machine' = "done"
    /\ intent' = NoIntent
    /\ UNCHANGED <<registered, nReregister, nDeregister, blocked>>

\* A plausible slip: the socket is re-registered before the fold's result
\* is looked at, also when the machine ends.
Respond_ReregisterFirst(res, sockBlocked) ==
    IF res # NoIntent
    THEN \E regOk \in BOOLEAN : TransportMachine_next(res, sockBlocked, regOk)
    ELSE /\ machine' = "done"
         /\ intent' = NoIntent
         /\ nReregister' = nReregister + 1
         /\ UNCHANGED <<registered, nDeregister, blocked>>

\* What a callback does with the result of its last fold.
Respond(res, sockBlocked) ==
    IF res # NoIntent
    THEN \E regOk \in BOOLEAN : TransportMachine_next(res, sockBlocked, regOk)
    ELSE ResponseDone

\* The reactor is between callbacks.
Polling == callback = "none"

\* A plausible slip: creation registers like next() re-registers, for the
\* direction the socket is blocked on.
RegisterEvents_Blocked(sockBlocked, self) == NextEvents(sockBlocked, self)

\* The events of the scope.register call of TransportMachine::new:
\* conn.intent.events(), whatever conn.sock.blocked() is.
RegisterEvents(sockBlocked, self) == Intent_events(self)

\* TransportMachine::new (and Machine::create, which calls it).
TransportMachine_new ==
    /\ machine = "seed"
    /\ Polling
    /\ \E next \in NextValues, sockBlocked \in BlockedStates :
         LET res == Intent_new(next, now)
         IN  /\ calls' = <<Call("create", next, NoIntent, res)>>
             /\ blocked' = sockBlocked
             /\ IF res # NoIntent
                THEN /\ nRegister' = nRegister + 1
                     /\ \E regOk \in BOOLEAN :
                          IF regOk
                          THEN /\ machine' = "live"
                               /\ intent' = res
                               /\ registered' = RegisterEvents(sockBlocked, res)
                          ELSE /\ machine' = "error"
                               /\ intent' = NoIntent
                               /\ UNCHANGED registered
                ELSE /\ machine' = "done"
                     /\ intent' = NoIntent
                     /\ UNCHANGED <<registered, nRegister>>
    /\ callback' = "create"
    /\ UNCHANGED <<now, nReregister, nDeregister, delivered>>
    /\ UNCHANGED <<ductVars, gateVars, trigVars, srvVars, reqVars>>
    /\ UNCHANGED <<connVars, cmpVars, dgVars>>

\* The reactor delivers a callback only to a machine it holds, and the model
\* stops after MaxCallbacks of them.
Deliverable == machine = "live" /\ Polling /\ nReregister < MaxCallbacks

\* A plausible slip: ready dispatches on the delivered events also when the
\* socket is blocked.
DispatchEvents_Delivered(events) == events

\* The events ready dispatches on: the handler's when the socket is blocked.
DispatchEvents(events) ==
    IF blocked # "None" THEN Intent_events(intent) ELSE events

\* `if events.is_readable()`
ReadableDue(events) == "readable" \in events

\* A plausible slip: the write hook is dispatched although the fold of the
\* read hook's answer has ended the machine.
WritableDue_NoShortCircuit(events, afterRead) == "writable" \in events

\* `if events.is_writable()`, reached only if the read fold did not return.
WritableDue(events, afterRead) ==
    "writable" \in events /\ afterRead # NoIntent

\* The first branch of ready: the event set carries an error and the socket
\* has one to take; the error hook's answer is folded and ready returns.
ReadyError ==
    /\ Deliverable
    /\ \E events \in SUBSET EventKinds, next \in NextValues :
         LET res == Intent_merge(intent, next, now)
         IN  /\ "error" \in events
             /\ delivered' = events
             /\ calls' = <<ErrorCall("Io", next, intent, res)>>
             /\ Respond(res, blocked)
    /\ callback' = "ready"
    /\ UNCHANGED <<now, nRegister>>
    /\ UNCHANGED <<ductVars, gateVars, trigVars, srvVars, reqVars>>
    /\ UNCHANGED <<connVars, cmpVars, dgVars>>

\* The rest of ready: no error bit, or take_socket_error returned Ok.
ReadyDispatch ==
    /\ Deliverable
    /\ \E eventSet \in SUBSET EventKinds :
       LET events == DispatchEvents(eventSet) IN
       \E nextR \in (IF ReadableDue(events) THEN NextValues ELSE {Next_remove}) :
       LET afterRead == IF ReadableDue(events)
                        THEN Intent_merge(intent, nextR, now) ELSE intent
           callsR == IF ReadableDue(events)
                     THEN <<Call("readable", nextR, intent, afterRead)>>
                     ELSE <<>>
       IN
       \E nextW \in (IF WritableDue(events, afterRead)
                     THEN NextValues ELSE {Next_remove}) :
       LET afterWrite == IF WritableDue(events, afterRead)
                         THEN Intent_merge(afterRead, nextW, now)
                         ELSE afterRead
           callsW == IF WritableDue(events, afterRead)
                     THEN <<Call("writable", nextW, afterRead, afterWrite)>>
                     ELSE <<>>
       IN
       /\ delivered' = eventSet
       /\ calls' = callsR \o callsW
       /\ \E sockBlocked \in (IF calls' = <<>> \/ afterWrite = NoIntent
                              THEN {blocked} ELSE BlockedStates) :
            Respond(afterWrite, sockBlocked)
    /\ callback' = "ready"
    /\ UNCHANGED <<now, nRegister>>
    /\ UNCHANGED <<ductVars, gateVars, trigVars, srvVars, reqVars>>
    /\ UNCHANGED <<connVars, cmpVars, dgVars>>

\* Machine::ready of TransportMachine.
TransportMachine_ready == ReadyError \/ ReadyDispatch

\* Machine::timeout: delivered by the reactor once the deadline of the last
\* response has passed.
TransportMachine_timeout ==
    /\ Deliverable
    /\ intent.deadline # NoTime
    /\ now >= intent.deadline
    /\ \E next \in NextValues :
         LET res == Intent_merge(intent, next, now)
         IN  /\ calls' = <<ErrorCall("Timeout", next, intent, res)>>
             /\ Respond(res, blocked)
    /\ callback' = "timeout"
    /\ UNCHANGED <<now, nRegister, delivered>>
    /\ UNCHANGED <<ductVars, gateVars, trigVars, srvVars, reqVars>>
    /\ UNCHANGED <<connVars, cmpVars, dgVars>>

\* Machine::wakeup.
TransportMachine_wakeup ==
    /\ Deliverable
    /\ \E next \in NextValues :
         LET res == Intent_merge(intent, next, now)
         IN  /\ calls' = <<Call("wakeup", next, intent, res)>>
             /\ Respond(res, blocked)
    /\ callback' = "wakeup"
    /\ UNCHANGED <<now, nRegister, delivered>>
    /\ UNCHANGED <<ductVars, gateVars, trigVars, srvVars, reqVars>>
    /\ UNCHANGED <<connVars, cmpVars, dgVars>>

\* The reactor has taken the callback's Response and polls again.
Poll ==
    /\ callback # "none"
    /\ callback' = "none"
    /\ calls' = <<>>
    /\ delivered' = {}
    /\ UNCHANGED <<machine, intent, now, blocked, registered, nRegister,
                   nReregister, nDeregister>>
    /\ UNCHANGED <<ductVars, gateVars, trigVars, srvVars, reqVars>>
    /\ UNCHANGED <<connVars, cmpVars, dgVars>>

\* The reactor's clock advances between callbacks.
Tick ==
    /\ Polling
    /\ now < MaxTime
    /\ now' = now + 1
    /\ UNCHANGED <<machine, intent, blocked, registered, nRegister,
                   nReregister, nDeregister, delivered, callback, calls>>
    /\ UNCHANGED <<ductVars, gateVars, trigVars, srvVars, reqVars>>
    /\ UNCHANGED <<connVars, cmpVars, dgVars>>

TMInit ==
    /\ machine = "seed"
    /\ intent = NoIntent
    /\ now = 0
    /\ blocked = "None"
    /\ registered = {}
    /\ nRegister = 0
    /\ nReregister = 0
    /\ nDeregister = 0
    /\ delivered = {}
    /\ callback = "none"
    /\ calls = <<>>

TMNext ==
    \/ TransportMachine_new
    \/ TransportMachine_ready
    \/ TransportMachine_timeout
    \/ TransportMachine_wakeup
    \/ Poll
    \/ Tick

\* ------------------------------------------------------------ sync.rs: duct
DuctSenders == 1..NDuctSenders

Idle == [pc |-> "idle", id |-> 0, ret |-> "none"]

\* A send call has returned `ret`; SendError carries the value it was given.
Returned(ret, value) == [pc |-> "idle", id |-> value, ret |-> ret]

\* duct(): the flag starts false, the channel empty.
DuctInit ==
    /\ dQueue = <<>>
    /\ dAwake = FALSE
    /\ dRxAlive = TRUE
    /\ dNotified = 0
    /\ dSend = [s \in DuctSenders |-> Idle]
    /\ dRecv = "idle"
    /\ dSent = 0
    /\ dTaken = 0
    /\ dOk = {}
    /\ dSentSince = 0
    /\ dWakeSince = 0
    /\ dQuiet = TRUE

\* A plausible slip: the result of `self.tx.send(value)` is dropped and the
\* call goes on to the flag.
DuctSender_send_tx_IgnoresError(s) ==
    /\ dSend[s].pc = "idle"
    /\ dSent < MaxSends
    /\ dSent' = dSent + 1
    /\ dQueue' = IF dRxAlive THEN Append(dQueue, dSent + 1) ELSE dQueue
    /\ dSend' = [dSend EXCEPT ![s] = [pc |-> "swap", id |-> dSent + 1,
                                      ret |-> "none"]]
    /\ dSentSince' = dSentSince + 1
    /\ UNCHANGED <<dAwake, dRxAlive, dNotified, dRecv, dTaken, dOk, dWakeSince,
                   dQuiet>>
    /\ UNCHANGED <<tmVars, gateVars, trigVars, srvVars, reqVars>>
    /\ UNCHANGED <<connVars, cmpVars, dgVars>>

\* DuctSender::send, `try!(self.tx.send(value))`: the item is enqueued, or
\* the call returns SendError(value) because the receiver is gone.
DuctSender_send_tx(s) ==
    /\ dSend[s].pc = "idle"
    /\ dSent < MaxSends
    /\ dSent' = dSent + 1
    /\ IF dRxAlive
       THEN /\ dQueue' = Append(dQueue, dSent + 1)
            /\ dSend' = [dSend EXCEPT ![s] = [pc |-> "swap", id |-> dSent + 1,
                                              ret |-> "none"]]
            /\ dSentSince' = dSentSince + 1
       ELSE /\ dSend' = [dSend EXCEPT ![s] = Returned("SendError", dSent + 1)]
            /\ UNCHANGED <<dQueue, dSentSince>>
    /\ UNCHANGED <<dAwake, dRxAlive, dNotified, dRecv, dTaken, dOk, dWakeSince,
                   dQuiet>>
    /\ UNCHANGED <<tmVars, gateVars, trigVars, srvVars, reqVars>>
    /\ UNCHANGED <<connVars, cmpVars, dgVars>>

\* A plausible slip: the result of the swap is not looked at, every send
\* goes on to wake the reactor.
DuctSender_send_swap_AlwaysWake(s) ==
    /\ dSend[s].pc = "swap"
    /\ dAwake' = TRUE
    /\ dSend' = [dSend EXCEPT ![s].pc = "wakeup"]
    /\ UNCHANGED <<dOk, dQueue, dRxAlive, dNotified, dRecv, dSent, dTaken,
                   dSentSince, dWakeSince, dQuiet>>
    /\ UNCHANGED <<tmVars, gateVars, trigVars, srvVars, reqVars>>
    /\ UNCHANGED <<connVars, cmpVars, dgVars>>

\* DuctSender::send, `if !self.awake.swap(true, SeqCst)`: the flag is set;
\* the call goes on to the wakeup if it was clear and returns Ok if not.
DuctSender_send_swap(s) ==
    /\ dSend[s].pc = "swap"
    /\ dAwake' = TRUE
    /\ IF ~dAwake
       THEN /\ dSend' = [dSend EXCEPT ![s].pc = "wakeup"]
            /\ UNCHANGED dOk
       ELSE /\ dSend' = [dSend EXCEPT ![s] = Returned("Ok", 0)]
            /\ dOk' = dOk \cup {dSend[s].id}
    /\ UNCHANGED <<dQueue, dRxAlive, dNotified, dRecv, dSent, dTaken,
                   dSentSince, dWakeSince, dQuiet>>
    /\ UNCHANGED <<tmVars, gateVars, trigVars, srvVars, reqVars>>
    /\ UNCHANGED <<connVars, cmpVars, dgVars>>

\* DuctSender::send, `try!(self.notifier.wakeup())` and `Ok(())`: the
\* notifier queues a wakeup, or fails and send returns WakeupError.
DuctSender_send_wakeup(s) ==
    /\ dSend[s].pc = "wakeup"
    /\ dWakeSince' = dWakeSince + 1
    /\ \E wakeupOk \in BOOLEAN :
         IF wakeupOk
         THEN /\ dNotified' = dNotified + 1
              /\ dOk' = dOk \cup {dSend[s].id}
              /\ dSend' = [dSend EXCEPT ![s] = Returned("Ok", 0)]
         ELSE /\ dSend' = [dSend EXCEPT ![s] = Returned("WakeupError", 0)]
              /\ UNCHANGED <<dNotified, dOk>>
    /\ UNCHANGED <<dQueue, dAwake, dRxAlive, dRecv, dSent, dTaken, dSentSince,
                   dQuiet>>
    /\ UNCHANGED <<tmVars, gateVars, trigVars, srvVars, reqVars>>
    /\ UNCHANGED <<connVars, cmpVars, dgVars>>

DuctSender_send(s) ==
    \/ DuctSender_send_tx(s)
    \/ DuctSender_send_swap(s)
    \/ DuctSender_send_wakeup(s)

\* The reactor delivers a queued wakeup to the receiver's machine, which
\* starts to drain the duct.
DuctWakeup ==
    /\ dRxAlive
    /\ dRecv = "idle"
    /\ dNotified > 0
    /\ dNotified' = dNotified - 1
    /\ dRecv' = "store"
    /\ UNCHANGED <<dQueue, dAwake, dRxAlive, dSend, dSent, dTaken, dOk,
                   dSentSince, dWakeSince, dQuiet>>
    /\ UNCHANGED <<tmVars, gateVars, trigVars, srvVars, reqVars>>
    /\ UNCHANGED <<connVars, cmpVars, dgVars>>

\* The machine drains the duct in a callback that no wakeup of this duct
\* caused (its notifier is shared; Machine::spawned drains too).
DuctPoll ==
    /\ dRxAlive
    /\ dRecv = "idle"
    /\ dRecv' = "store"
    /\ UNCHANGED <<dQueue, dAwake, dRxAlive, dNotified, dSend, dSent, dTaken, dOk,
                   dSentSince, dWakeSince, dQuiet>>
    /\ UNCHANGED <<tmVars, gateVars, trigVars, srvVars, reqVars>>
    /\ UNCHANGED <<connVars, cmpVars, dgVars>>

\* DuctReceiver::try_recv, `self.awake.store(false, Relaxed)`, performed
\* before the load of the channel.
DuctReceiver_try_recv_store ==
    /\ dRecv = "store"
    /\ dAwake' = FALSE
    /\ dRecv' = "rx"
    /\ dSentSince' = 0
    /\ dWakeSince' = 0
    /\ dQuiet' = \A s \in DuctSenders : dSend[s].pc = "idle"
    /\ UNCHANGED <<dQueue, dRxAlive, dNotified, dSend, dSent, dTaken, dOk>>
    /\ UNCHANGED <<tmVars, gateVars, trigVars, srvVars, reqVars>>
    /\ UNCHANGED <<connVars, cmpVars, dgVars>>

\* DuctReceiver::try_recv, `self.rx.try_recv()`: an item, after which the
\* drain calls try_recv again, or nothing, which ends the drain.
DuctReceiver_try_recv_rx ==
    /\ dRecv = "rx"
    /\ IF dQueue # <<>>
       THEN /\ dQueue' = Tail(dQueue)
            /\ dTaken' = dTaken + 1
            /\ dRecv' = "store"
       ELSE /\ dRecv' = "idle"
            /\ UNCHANGED <<dQueue, dTaken>>
    /\ UNCHANGED <<dAwake, dRxAlive, dNotified, dSend, dSent, dOk, dSentSince,
                   dWakeSince, dQuiet>>
    /\ UNCHANGED <<tmVars, gateVars, trigVars, srvVars, reqVars>>
    /\ UNCHANGED <<connVars, cmpVars, dgVars>>

\* The store is Relaxed, so nothing orders it before the loads of
\* `self.rx.try_recv()` that follow it in the program: the channel may be
\* read while the store has not yet reached the flag.
DuctReceiver_try_recv_rx_early ==
    /\ dRecv = "store"
    /\ IF dQueue # <<>>
       THEN /\ dQueue' = Tail(dQueue)
            /\ dTaken' = dTaken + 1
            /\ dRecv' = "late_some"
       ELSE /\ dRecv' = "late_none"
            /\ UNCHANGED <<dQueue, dTaken>>
    /\ UNCHANGED <<dAwake, dRxAlive, dNotified, dSend, dSent, dOk, dSentSince,
                   dWakeSince, dQuiet>>
    /\ UNCHANGED <<tmVars, gateVars, trigVars, srvVars, reqVars>>
    /\ UNCHANGED <<connVars, cmpVars, dgVars>>

\* The store of a try_recv whose load was performed first reaches the flag;
\* try_recv returns what the load found.
DuctReceiver_try_recv_store_late ==
    /\ dRecv \in {"late_some", "late_none"}
    /\ dAwake' = FALSE
    /\ dRecv' = IF dRecv = "late_some" THEN "store" ELSE "idle"
    /\ dSentSince' = 0
    /\ dWakeSince' = 0
    /\ dQuiet' = \A s \in DuctSenders : dSend[s].pc = "idle"
    /\ UNCHANGED <<dQueue, dRxAlive, dNotified, dSend, dSent, dTaken, dOk>>
    /\ UNCHANGED <<tmVars, gateVars, trigVars, srvVars, reqVars>>
    /\ UNCHANGED <<connVars, cmpVars, dgVars>>

DuctReceiver_try_recv ==
    \/ DuctReceiver_try_recv_store
    \/ DuctReceiver_try_recv_rx
    \/ DuctReceiver_try_recv_rx_early
    \/ DuctReceiver_try_recv_store_late

\* The machine that owns the DuctReceiver ends: the receiver is dropped and
\* the items still in the channel with it.
DuctReceiverDrop ==
    /\ dRxAlive
    /\ dRecv = "idle"
    /\ dRxAlive' = FALSE
    /\ dQueue' = <<>>
    /\ UNCHANGED <<dAwake, dNotified, dSend, dRecv, dSent, dTaken, dOk,
                   dSentSince, dWakeSince, dQuiet>>
    /\ UNCHANGED <<tmVars, gateVars, trigVars, srvVars, reqVars>>
    /\ UNCHANGED <<connVars, cmpVars, dgVars>>

DuctNext ==
    \/ \E s \in DuctSenders : DuctSender_send(s)
    \/ DuctWakeup
    \/ DuctPoll
    \/ DuctReceiver_try_recv
    \/ DuctReceiverDrop

\* ------------------------------------------------------------ sync.rs: gate
\* gate(): the slot starts empty.
GateInit ==
    /\ gItem = 0
    /\ gSend = "idle"
    /\ gValue = 0
    /\ gRet = "none"
    /\ gNotified = 0
    /\ gPolls = <<>>

\* The values handed to GateSender::send.
GateValues == 1..NValues

\* What `self.item.lock()` returns to GateSender::send.
LockResults == {"Ok", "Poisoned"}

\* GateSender::send, `self.item.lock()` and `mem::replace(.., Some(value))`:
\* the sender takes the mutex and stores the value; if the mutex is
\* poisoned send returns Poisoned(value) and the slot is not touched.
GateSender_send_store ==
    /\ gSend = "idle"
    /\ \E value \in GateValues, lock \in LockResults :
         /\ gValue' = value
         /\ IF lock = "Ok"
            THEN /\ gItem' = value
                 /\ gSend' = "locked"
                 /\ UNCHANGED gRet
            ELSE /\ gSend' = "poisoned"
                 /\ gRet' = "Poisoned"
                 /\ UNCHANGED gItem
    /\ UNCHANGED <<gNotified, gPolls>>
    /\ UNCHANGED <<tmVars, ductVars, trigVars, srvVars, reqVars>>
    /\ UNCHANGED <<connVars, cmpVars, dgVars>>

\* A plausible slip: on a failed wakeup the value is taken out of the slot
\* again before send returns.
GateSender_send_wakeup_TakesBack ==
    /\ gSend = "locked"
    /\ gSend' = "done"
    /\ \E wakeupOk \in BOOLEAN :
         IF wakeupOk
         THEN gNotified' = gNotified + 1 /\ gRet' = "Ok" /\ UNCHANGED gItem
         ELSE gRet' = "WakeupError" /\ gItem' = 0 /\ UNCHANGED gNotified
    /\ UNCHANGED <<gValue, gPolls>>
    /\ UNCHANGED <<tmVars, ductVars, trigVars, srvVars, reqVars>>
    /\ UNCHANGED <<connVars, cmpVars, dgVars>>

\* GateSender::send, `try!(self.notifier.wakeup())` and `Ok(())`, made with
\* the mutex held; the guard is dropped when send returns, and the sender,
\* taken by value, with it.
GateSender_send_wakeup ==
    /\ gSend = "locked"
    /\ gSend' = "done"
    /\ \E wakeupOk \in BOOLEAN :
         IF wakeupOk
         THEN gNotified' = gNotified + 1 /\ gRet' = "Ok"
         ELSE gRet' = "WakeupError" /\ UNCHANGED gNotified
    /\ UNCHANGED <<gItem, gValue, gPolls>>
    /\ UNCHANGED <<tmVars, ductVars, trigVars, srvVars, reqVars>>
    /\ UNCHANGED <<connVars, cmpVars, dgVars>>

GateSender_send == GateSender_send_store \/ GateSender_send_wakeup

\* A plausible slip: try_get reads the slot and leaves the value in it.
GateReceiver_try_get_Peek(woken) ==
    /\ gSend # "locked"
    /\ Len(gPolls) < MaxPolls
    /\ gPolls' = Append(gPolls, [got |-> gItem, stored |-> gSend = "done",
                                 woken |-> woken])
    /\ UNCHANGED gItem

\* GateReceiver::try_get: under the mutex, which the sender holds until its
\* send returns, `mem::replace(.., None)`. (On a poisoned mutex it returns
\* GateRecvError, and the slot, which is empty, stays so.)
GateReceiver_try_get(woken) ==
    /\ gSend # "locked"
    /\ Len(gPolls) < MaxPolls
    /\ gPolls' = Append(gPolls, [got |-> gItem, stored |-> gSend = "done",
                                 woken |-> woken])
    /\ gItem' = 0

\* The reactor delivers a queued wakeup to the receiver's machine, whose
\* handler polls the gate.
GateWakeup ==
    /\ gNotified > 0
    /\ gNotified' = gNotified - 1
    /\ GateReceiver_try_get(TRUE)
    /\ UNCHANGED <<gSend, gValue, gRet>>
    /\ UNCHANGED <<tmVars, ductVars, trigVars, srvVars, reqVars>>
    /\ UNCHANGED <<connVars, cmpVars, dgVars>>

\* The handler polls the gate in a callback that no wakeup of the gate
\* caused.
GatePoll ==
    /\ GateReceiver_try_get(FALSE)
    /\ UNCHANGED <<gSend, gValue, gRet, gNotified>>
    /\ UNCHANGED <<tmVars, ductVars, trigVars, srvVars, reqVars>>
    /\ UNCHANGED <<connVars, cmpVars, dgVars>>

GateNext ==
    \/ GateSender_send
    \/ GateWakeup
    \/ GatePoll

\* --------------------------------------------------------- sync.rs: trigger
TrigSenders == 1..NTrigSenders

TrigIdle(ret) == [pc |-> "idle", id |-> 0, ret |-> ret]

\* trigger(): the flag starts false.
TrigInit ==
    /\ tFlag = FALSE
    /\ tSend = [s \in TrigSenders |-> TrigIdle("none")]
    /\ tNotified = 0
    /\ tSwapped = 0
    /\ tReturned = 0
    /\ tWakeCalls = 0
    /\ tWaker = 0
    /\ tIssued = 0

\* A plausible slip: the result of the swap is not looked at.
TriggerSender_trigger_swap_AlwaysWake(s) ==
    /\ tSend[s].pc = "idle"
    /\ tSwapped < MaxTriggers
    /\ tSwapped' = tSwapped + 1
    /\ tFlag' = TRUE
    /\ tSend' = [tSend EXCEPT ![s] = [pc |-> "wakeup", id |-> tSwapped + 1,
                                      ret |-> "none"]]
    /\ UNCHANGED <<tReturned, tNotified, tWakeCalls, tWaker, tIssued>>
    /\ UNCHANGED <<tmVars, ductVars, gateVars, srvVars, reqVars>>
    /\ UNCHANGED <<connVars, cmpVars, dgVars>>

\* TriggerSender::trigger, `if !self.flag.swap(true, SeqCst)`: the flag is
\* set; the call goes on to the wakeup if it was clear and returns Ok if not.
TriggerSender_trigger_swap(s) ==
    /\ tSend[s].pc = "idle"
    /\ tSwapped < MaxTriggers
    /\ tSwapped' = tSwapped + 1
    /\ tFlag' = TRUE
    /\ IF ~tFlag
       THEN /\ tSend' = [tSend EXCEPT ![s] = [pc |-> "wakeup",
                                              id |-> tSwapped + 1,
                                              ret |-> "none"]]
            /\ UNCHANGED tReturned
       ELSE /\ tReturned' = tReturned + 1
            /\ tSend' = [tSend EXCEPT ![s] = TrigIdle("Ok")]
    /\ UNCHANGED <<tNotified, tWakeCalls, tWaker, tIssued>>
    /\ UNCHANGED <<tmVars, ductVars, gateVars, srvVars, reqVars>>
    /\ UNCHANGED <<connVars, cmpVars, dgVars>>

\* TriggerSender::trigger, `try!(self.notifier.wakeup())` and `Ok(())`.
TriggerSender_trigger_wakeup(s) ==
    /\ tSend[s].pc = "wakeup"
    /\ tWakeCalls' = tWakeCalls + 1
    /\ tWaker' = tSend[s].id
    /\ tReturned' = tReturned + 1
    /\ \E wakeupOk \in BOOLEAN :
         IF wakeupOk
         THEN /\ tNotified' = tNotified + 1
              /\ tIssued' = tIssued + 1
              /\ tSend' = [tSend EXCEPT ![s] = TrigIdle("Ok")]
         ELSE /\ tSend' = [tSend EXCEPT ![s] = TrigIdle("WakeupError")]
              /\ UNCHANGED <<tNotified, tIssued>>
    /\ UNCHANGED <<tFlag, tSwapped>>
    /\ UNCHANGED <<tmVars, ductVars, gateVars, srvVars, reqVars>>
    /\ UNCHANGED <<connVars, cmpVars, dgVars>>

TriggerSender_trigger(s) ==
    \/ TriggerSender_trigger_swap(s)
    \/ TriggerSender_trigger_wakeup(s)

\* TriggerReceiver::triggered
TriggerReceiver_triggered == tFlag

\* The reactor delivers a queued wakeup to the receiver's machine.
TriggerWakeup ==
    /\ tNotified > 0
    /\ tNotified' = tNotified - 1
    /\ UNCHANGED <<tFlag, tSend, tSwapped, tReturned, tWakeCalls, tWaker,
                   tIssued>>
    /\ UNCHANGED <<tmVars, ductVars, gateVars, srvVars, reqVars>>
    /\ UNCHANGED <<connVars, cmpVars, dgVars>>

TrigNext ==
    \/ \E s \in TrigSenders : TriggerSender_trigger(s)
    \/ TriggerWakeup

\* -------------------------------------- net/machines.rs: ServerMachine (Lsnr)
Seeds == 1..NSeeds

\* A plausible slip: the listener's Response::ok is given a deadline.
LsnrDeadline_Armed(ret) == IF ret = "ok" THEN 0 ELSE NoTime

\* The deadline of a Response of the listener: new, accept and wakeup build
\* it with Response::ok, ::spawn, ::done or ::error and never call
\* .deadline() on it.
LsnrDeadline(ret) == NoTime

SrvCall(cb, fired, queued, res, ret) ==
    [cb |-> cb, fired |-> fired, queued |-> queued, res |-> res, ret |-> ret,
     deadline |-> LsnrDeadline(ret)]

SrvInit ==
    /\ srvMachine = "new"
    /\ srvPhase = "idle"
    /\ srvBacklog = <<>>
    /\ srvArrived = 0
    /\ srvLog = <<>>
    /\ srvSpawned = <<>>
    /\ srvLast = SrvCall("none", FALSE, FALSE, "skipped", "none")

\* ServerMachine::new: the trigger is made, the accept socket registered for
\* readable; the TriggerSender is returned also when registering fails.
ServerMachine_new ==
    /\ srvMachine = "new"
    /\ \E regOk \in BOOLEAN :
         /\ srvMachine' = IF regOk THEN "Listening" ELSE "error"
         /\ srvLast' = SrvCall("new", FALSE, FALSE, "skipped",
                               IF regOk THEN "ok" ELSE "error")
    /\ UNCHANGED <<srvPhase, srvBacklog, srvArrived, srvLog, srvSpawned>>
    /\ UNCHANGED <<tmVars, ductVars, gateVars, trigVars, reqVars>>
    /\ UNCHANGED <<connVars, cmpVars, dgVars>>

\* A peer asks for a connection with the accept socket, which is bound
\* before the machine is made and closed when the listener is dropped.
SrvConnect ==
    /\ srvMachine \in {"new", "Listening"}
    /\ srvArrived < MaxConns
    /\ srvArrived' = srvArrived + 1
    /\ srvBacklog' = Append(srvBacklog, srvArrived + 1)
    /\ UNCHANGED <<srvMachine, srvPhase, srvLog, srvSpawned, srvLast>>
    /\ UNCHANGED <<tmVars, ductVars, gateVars, trigVars, reqVars>>
    /\ UNCHANGED <<connVars, cmpVars, dgVars>>

\* What accept() can return: a pending connection, None, or an error.
AcceptResults == IF srvBacklog # <<>> THEN {"conn", "err"} ELSE {"none", "err"}

\* A plausible slip: the connection is spawned whatever the handler answers.
AcceptResponse_SpawnDeclined(res, seed, handlerOk) ==
    CASE res = "conn" -> "spawn"
      [] res = "err" /\ ~handlerOk -> "done"
      [] OTHER -> "ok"

\* The Response of ServerMachine::accept: for what accept() returned, the
\* seed the accept handler answered (0 for None) and whether the handler's
\* error hook returned Ok(()).
AcceptResponse(res, seed, handlerOk) ==
    CASE res = "conn" /\ seed # 0 -> "spawn"
      [] res = "err" /\ ~handlerOk -> "done"
      [] OTHER -> "ok"

\* ServerMachine::accept, called by the callback cb.
ServerMachine_accept(cb) ==
    \E res \in AcceptResults, seed \in {0} \cup Seeds, handlerOk \in BOOLEAN,
       taken \in BOOLEAN :
      LET ret == AcceptResponse(res, seed, handlerOk)
          conn == Head(srvBacklog)
      IN  \* inputs that the branch taken does not read are fixed
          /\ res # "conn" => seed = 0
          /\ res # "err" => handlerOk
          /\ taken = (res = "conn" \/ (res = "err" /\ srvBacklog # <<>> /\ taken))
          /\ srvBacklog' = IF taken THEN Tail(srvBacklog) ELSE srvBacklog
          /\ srvLog' = IF res = "conn"
                       THEN Append(srvLog, [conn |-> conn, seed |-> seed])
                       ELSE srvLog
          /\ srvSpawned' = IF ret = "spawn"
                           THEN Append(srvSpawned, [sock |-> conn, seed |-> seed])
                           ELSE srvSpawned
          /\ srvPhase' = IF ret = "spawn" THEN "spawn" ELSE "idle"
          /\ srvMachine' = IF ret = "done" THEN "done" ELSE "Listening"
          /\ srvLast' = SrvCall(cb, tFlag, FALSE, res, ret)

\* Machine::ready of a ServerMachine of the accept flavour.
ServerMachine_ready ==
    /\ srvMachine = "Listening"
    /\ srvPhase = "idle"
    /\ ServerMachine_accept("ready")
    /\ UNCHANGED srvArrived
    /\ UNCHANGED <<tmVars, ductVars, gateVars, trigVars, reqVars>>
    /\ UNCHANGED <<connVars, cmpVars, dgVars>>

\* Machine::spawned of a ServerMachine of the accept flavour: called by the
\* reactor once it has created the machine of a Response::spawn.
ServerMachine_spawned ==
    /\ srvMachine = "Listening"
    /\ srvPhase = "spawn"
    /\ ServerMachine_accept("spawned")
    /\ UNCHANGED srvArrived
    /\ UNCHANGED <<tmVars, ductVars, gateVars, trigVars, reqVars>>
    /\ UNCHANGED <<connVars, cmpVars, dgVars>>

\* A plausible slip: the wakeup callback does not look at the trigger.
WakeupResponse_Ignore(triggered) == "ok"

\* The Response of ServerMachine::wakeup for the accept flavour.
WakeupResponse(triggered) == IF triggered THEN "done" ELSE "ok"

\* Machine::wakeup of a ServerMachine of the accept flavour: the reactor
\* delivers a wakeup queued by the trigger's notifier, or calls wakeup
\* without one.
ServerMachine_wakeup ==
    /\ srvMachine = "Listening"
    /\ srvPhase = "idle"
    /\ \E queued \in BOOLEAN :
         LET ret == WakeupResponse(TriggerReceiver_triggered)
         IN  /\ queued => tNotified > 0
             /\ tNotified' = IF queued THEN tNotified - 1 ELSE tNotified
             /\ srvMachine' = IF ret = "done" THEN "done" ELSE "Listening"
             /\ srvLast' = SrvCall("wakeup", tFlag, queued, "skipped", ret)
    /\ UNCHANGED <<srvPhase, srvBacklog, srvArrived, srvLog, srvSpawned>>
    /\ UNCHANGED <<tFlag, tSend, tSwapped, tReturned, tWakeCalls, tWaker,
                   tIssued>>
    /\ UNCHANGED <<tmVars, ductVars, gateVars, reqVars>>
    /\ UNCHANGED <<connVars, cmpVars, dgVars>>

\* Machine::timeout of a ServerMachine of the accept flavour:
\* unreachable!("listener can't timeout").
ServerMachine_timeout ==
    /\ srvMachine' = "panic"
    /\ srvLast' = SrvCall("timeout", tFlag, FALSE, "skipped", "panic")
    /\ UNCHANGED <<srvPhase, srvBacklog, srvArrived, srvLog, srvSpawned>>

\* The reactor looks at its timers: it delivers timeout to a machine whose
\* last Response carried a deadline, and to no other.
SrvTimers ==
    /\ srvMachine = "Listening"
    /\ srvPhase = "idle"
    /\ IF srvLast.deadline # NoTime
       THEN ServerMachine_timeout
       ELSE UNCHANGED srvVars
    /\ UNCHANGED <<tmVars, ductVars, gateVars, trigVars, reqVars>>
    /\ UNCHANGED <<connVars, cmpVars, dgVars>>

\* The TriggerSender that ServerMachine::new returned is used.
SrvTrigger ==
    /\ srvMachine # "new"
    /\ TriggerSender_trigger(1)

SrvNext ==
    \/ ServerMachine_new
    \/ SrvConnect
    \/ ServerMachine_ready
    \/ ServerMachine_spawned
    \/ ServerMachine_wakeup
    \/ SrvTimers
    \/ SrvTrigger

\* -------------------------------------- net/machines.rs: ServerMachine (Conn)
ConnInit == srvConns = <<>>

\* What the wrapped TransportMachine returns from create and from a
\* callback: Response::ok with the machine, Response::done or
\* Response::error. It never asks for a spawn.
ConnResponses == {"ok", "done", "error"}

\* A plausible slip: the machine returned is wrapped as a listener.
MapSelfConn_Lsnr(resp) == IF resp = "ok" THEN "Listening" ELSE resp

\* `.map_self(ServerMachine::conn)`: the machine of the Response, if it has
\* one, becomes ServerMachine(ServerInner::Conn(conn), _); an ended
\* Response stays as it is.
MapSelfConn(resp) == IF resp = "ok" THEN "Connected" ELSE resp

\* Machine::create of ServerMachine: the reactor creates the machine for the
\* seed of the listener's Response::spawn before it calls spawned.
ServerMachine_create ==
    /\ srvPhase = "spawn"
    /\ Len(srvConns) < Len(srvSpawned)
    /\ \E resp \in ConnResponses :
         srvConns' = Append(srvConns, [flavour |-> MapSelfConn(resp),
                                       cb |-> "create"])
    /\ UNCHANGED <<tmVars, ductVars, gateVars, trigVars, srvVars, reqVars>>
    /\ UNCHANGED <<cmpVars, dgVars>>

\* The ServerInner::Conn arm of a callback, on the i-th machine created.
ConnForward(i, cb) ==
    /\ i \in DOMAIN srvConns
    /\ srvConns[i].flavour = "Connected"
    /\ \E resp \in ConnResponses :
         srvConns' = [srvConns EXCEPT ![i] = [flavour |-> MapSelfConn(resp),
                                              cb |-> cb]]
    /\ UNCHANGED <<tmVars, ductVars, gateVars, trigVars, srvVars, reqVars>>
    /\ UNCHANGED <<cmpVars, dgVars>>

\* Machine::ready, ::timeout and ::wakeup of a ServerMachine of the
\* connection flavour.
ServerMachine_ready_Conn(i) == ConnForward(i, "ready")

ServerMachine_timeout_Conn(i) == ConnForward(i, "timeout")

ServerMachine_wakeup_Conn(i) == ConnForward(i, "wakeup")

\* The reactor calls the listener's spawned once the machine is created.
SrvSpawnedAfterCreate ==
    /\ Len(srvConns) = Len(srvSpawned)
    /\ ServerMachine_spawned

\* Peers ask for connections, MaxSpawns of them.
SrvConnectFew ==
    /\ srvArrived < MaxSpawns
    /\ SrvConnect

ConnNext ==
    \/ ServerMachine_new
    \/ SrvConnectFew
    \/ ServerMachine_ready
    \/ ServerMachine_create
    \/ SrvSpawnedAfterCreate
    \/ ServerMachine_wakeup
    \/ \E i \in 1..MaxSpawns : ServerMachine_ready_Conn(i)
    \/ \E i \in 1..MaxSpawns : ServerMachine_timeout_Conn(i)
    \/ \E i \in 1..MaxSpawns : ServerMachine_wakeup_Conn(i)

\* ----------------------------------- compose.rs, net/clear.rs: sum machines
\* The machine types: Compose3<AA, BB, CC> and TcpUdpTransport.
Kinds == {"Compose3", "TcpUdp"}

\* enum Compose3 and enum TcpUdp: the branches of a machine.
Branches(kind) == IF kind = "Compose3" THEN {"A", "B", "C"} ELSE {"Tcp", "Udp"}

\* enum Compose3Seed, and TcpUdp as the Seed of TcpUdpTransport.
SeedTags(kind) ==
    IF kind = "Compose3" THEN {"As", "Bs", "Cs"} ELSE {"Tcp", "Udp"}

NoSeed == [tag |-> "none", by |-> "none"]

\* No machine has been added to the loop.
CmpInit ==
    /\ cmpKind = "none"
    /\ cmpMachines = <<>>
    /\ cmpSeed = NoSeed
    /\ cmpDue = 0

\* The arms of `match seed` in create: the constructor handed to map_self.
CreateArm(kind, tag) ==
    IF kind = "Compose3"
    THEN CASE tag = "As" -> "A"
           [] tag = "Bs" -> "B"
           [] tag = "Cs" -> "C"
    ELSE CASE tag = "Tcp" -> "Tcp"
           [] tag = "Udp" -> "Udp"

\* A plausible slip: the B arm of a callback wraps the seed with As.
CallbackArm_SeedOfA(kind, branch) ==
    IF kind = "Compose3"
    THEN CASE branch = "A" -> [self |-> "A", seed |-> "As"]
           [] branch = "B" -> [self |-> "B", seed |-> "As"]
           [] branch = "C" -> [self |-> "C", seed |-> "Cs"]
    ELSE CASE branch = "Tcp" -> [self |-> "Tcp", seed |-> "Tcp"]
           [] branch = "Udp" -> [self |-> "Udp", seed |-> "Udp"]

\* The arms of `match self` in a callback: the two constructors handed to
\* map, for the machine and for the seed.
CallbackArm(kind, branch) ==
    IF kind = "Compose3"
    THEN CASE branch = "A" -> [self |-> "A", seed |-> "As"]
           [] branch = "B" -> [self |-> "B", seed |-> "Bs"]
           [] branch = "C" -> [self |-> "C", seed |-> "Cs"]
    ELSE CASE branch = "Tcp" -> [self |-> "Tcp", seed |-> "Tcp"]
           [] branch = "Udp" -> [self |-> "Udp", seed |-> "Udp"]

\* A seed is handed to the loop from outside (add_machine_with); the first
\* one fixes the machine type of the loop.
CmpAdd ==
    /\ cmpSeed = NoSeed
    /\ cmpDue = 0
    /\ Len(cmpMachines) < MaxMachines
    /\ \E kind \in Kinds :
       \E tag \in SeedTags(kind) :
         /\ cmpKind \in {"none", kind}
         /\ cmpKind' = kind
         /\ cmpSeed' = [tag |-> tag, by |-> "loop"]
    /\ UNCHANGED <<cmpMachines, cmpDue>>
    /\ UNCHANGED <<tmVars, ductVars, gateVars, trigVars, srvVars, reqVars>>
    /\ UNCHANGED <<connVars, dgVars>>

\* Machine::create: the inner machine type of the seed's tag is created and
\* its Response mapped; a Response without machine stays as it is.
ComposeCreate(kind) ==
    /\ cmpKind = kind
    /\ cmpSeed # NoSeed
    /\ \E resp \in {"ok", "done", "error"} :
         cmpMachines' = Append(cmpMachines,
             [seed |-> cmpSeed.tag, by |-> cmpSeed.by,
              branch |-> IF resp = "ok" THEN CreateArm(kind, cmpSeed.tag)
                         ELSE resp])
    /\ cmpSeed' = NoSeed
    /\ UNCHANGED <<cmpKind, cmpDue>>
    /\ UNCHANGED <<tmVars, ductVars, gateVars, trigVars, srvVars, reqVars>>
    /\ UNCHANGED <<connVars, dgVars>>

\* The callbacks of Machine.
Callbacks4 == {"ready", "spawned", "timeout", "wakeup"}

\* Machine::ready, ::spawned, ::timeout and ::wakeup: the inner machine of
\* the live branch is called and its Response mapped. The reactor calls
\* spawned, and nothing else, on the machine whose spawn it has carried out.
ComposeForward(kind, i, cb) ==
    /\ cmpKind = kind
    /\ cmpSeed = NoSeed
    /\ i \in DOMAIN cmpMachines
    /\ cmpMachines[i].branch \in Branches(kind)
    /\ IF cmpDue # 0 THEN cmpDue = i /\ cb = "spawned" ELSE cb # "spawned"
    /\ \E resp \in {"ok", "done", "error", "spawn"} :
         LET arm == CallbackArm(kind, cmpMachines[i].branch)
         IN  /\ resp = "spawn" => Len(cmpMachines) < MaxMachines
             /\ cmpMachines' =
                  [cmpMachines EXCEPT ![i].branch =
                     IF resp \in {"ok", "spawn"} THEN arm.self ELSE resp]
             /\ cmpSeed' = IF resp = "spawn"
                           THEN [tag |-> arm.seed, by |-> cmpMachines[i].branch]
                           ELSE NoSeed
             /\ cmpDue' = IF resp = "spawn" THEN i ELSE 0
    /\ UNCHANGED cmpKind
    /\ UNCHANGED <<tmVars, ductVars, gateVars, trigVars, srvVars, reqVars>>
    /\ UNCHANGED <<connVars, dgVars>>

Compose3_create == ComposeCreate("Compose3")

Compose3_callback(i, cb) == ComposeForward("Compose3", i, cb)

TcpUdpTransport_create == ComposeCreate("TcpUdp")

TcpUdpTransport_callback(i, cb) == ComposeForward("TcpUdp", i, cb)

CmpNext ==
    \/ CmpAdd
    \/ Compose3_create
    \/ \E i \in 1..MaxMachines, cb \in Callbacks4 : Compose3_callback(i, cb)
    \/ TcpUdpTransport_create
    \/ \E i \in 1..MaxMachines, cb \in Callbacks4 :
         TcpUdpTransport_callback(i, cb)

\* ------------------------------------------------ machines.rs: RequestMachine
\* RequestMachine::new: the machine holds the receiver of a new duct; the
\* sender returned has been cloned for every thread that sends requests.
ReqInit ==
    /\ rqMachine = "req"
    /\ dTxLive = DuctSenders
    /\ rqItem = 0
    /\ rqCalls = 0
    /\ rqLog = <<>>
    /\ rqSpawned = <<>>
    /\ rqErrors = <<>>

\* A plausible slip: an empty channel is taken for a disconnected one.
RxResult_EmptyEndsMachine(queue, live) ==
    IF queue # <<>> THEN "Some" ELSE "Disconnected"

\* `self.rx.try_recv()` of a DuctReceiver as process_requests matches it: an
\* item, Ok(None) for an empty channel, and Err only for an empty channel
\* all of whose senders are dropped.
RxResult(queue, live) ==
    IF queue # <<>> THEN "Some"
    ELSE IF live # {} THEN "Empty"
    ELSE "Disconnected"

\* RequestMachine::wakeup for the request flavour: the reactor delivers a
\* wakeup queued by a DuctSender and the machine starts process_requests.
RequestMachine_wakeup ==
    /\ rqMachine = "req"
    /\ dRecv = "idle"
    /\ dNotified > 0
    /\ dNotified' = dNotified - 1
    /\ dRecv' = "store"
    /\ rqCalls' = rqCalls + 1
    /\ UNCHANGED <<dQueue, dAwake, dRxAlive, dSend, dSent, dTaken, dOk,
                   dSentSince, dWakeSince, dQuiet>>
    /\ UNCHANGED <<rqMachine, dTxLive, rqItem, rqLog, rqSpawned, rqErrors>>
    /\ UNCHANGED <<tmVars, gateVars, trigVars, srvVars>>
    /\ UNCHANGED <<connVars, cmpVars, dgVars>>

\* RequestMachine::spawned for the request flavour: called by the reactor
\* once it has created the machine of a Response::spawn; process_requests
\* goes on.
RequestMachine_spawned ==
    /\ rqMachine = "req"
    /\ dRecv = "spawned"
    /\ dRecv' = "store"
    /\ rqCalls' = rqCalls + 1
    /\ UNCHANGED ductVarsButRecv
    /\ UNCHANGED <<rqMachine, dTxLive, rqItem, rqLog, rqSpawned, rqErrors>>
    /\ UNCHANGED <<tmVars, gateVars, trigVars, srvVars>>
    /\ UNCHANGED <<connVars, cmpVars, dgVars>>

\* Req::process_requests, the store of `self.rx.try_recv()`.
Req_try_recv_store ==
    /\ rqMachine = "req"
    /\ DuctReceiver_try_recv_store

\* Req::process_requests, the load of `self.rx.try_recv()` and the arms
\* Ok(None) and Err(_) of the match on it.
Req_try_recv_rx ==
    /\ rqMachine = "req"
    /\ dRecv = "rx"
    /\ LET got == RxResult(dQueue, dTxLive)
       IN  /\ dQueue' = IF got = "Some" THEN Tail(dQueue) ELSE dQueue
           /\ dTaken' = IF got = "Some" THEN dTaken + 1 ELSE dTaken
           /\ rqItem' = IF got = "Some" THEN Head(dQueue) ELSE 0
           /\ dRecv' = IF got = "Some" THEN "got" ELSE "idle"
           /\ rqMachine' = IF got = "Disconnected" THEN "done" ELSE "req"
           /\ dRxAlive' = (got # "Disconnected")
    /\ UNCHANGED <<dAwake, dNotified, dSend, dSent, dOk, dSentSince,
                   dWakeSince, dQuiet>>
    /\ UNCHANGED <<dTxLive, rqCalls, rqLog, rqSpawned, rqErrors>>
    /\ UNCHANGED <<tmVars, gateVars, trigVars, srvVars>>
    /\ UNCHANGED <<connVars, cmpVars, dgVars>>

\* The same load performed ahead of the Relaxed store.
Req_try_recv_rx_early ==
    /\ rqMachine = "req"
    /\ dRecv = "store"
    /\ LET got == RxResult(dQueue, dTxLive)
       IN  /\ dQueue' = IF got = "Some" THEN Tail(dQueue) ELSE dQueue
           /\ dTaken' = IF got = "Some" THEN dTaken + 1 ELSE dTaken
           /\ rqItem' = IF got = "Some" THEN Head(dQueue) ELSE 0
           /\ dRecv' = CASE got = "Some" -> "late_some"
                         [] got = "Empty" -> "late_none"
                         [] OTHER -> "late_disc"
    /\ UNCHANGED <<dAwake, dRxAlive, dNotified, dSend, dSent, dOk, dSentSince,
                   dWakeSince, dQuiet>>
    /\ UNCHANGED <<rqMachine, dTxLive, rqCalls, rqLog, rqSpawned, rqErrors>>
    /\ UNCHANGED <<tmVars, gateVars, trigVars, srvVars>>
    /\ UNCHANGED <<connVars, cmpVars, dgVars>>

\* The store of a try_recv whose load was performed first reaches the flag;
\* process_requests matches what the load found.
Req_try_recv_store_late ==
    /\ rqMachine = "req"
    /\ dRecv \in {"late_some", "late_none", "late_disc"}
    /\ dAwake' = FALSE
    /\ dSentSince' = 0
    /\ dWakeSince' = 0
    /\ dQuiet' = \A s \in DuctSenders : dSend[s].pc = "idle"
    /\ dRecv' = IF dRecv = "late_some" THEN "got" ELSE "idle"
    /\ rqMachine' = IF dRecv = "late_disc" THEN "done" ELSE "req"
    /\ dRxAlive' = (dRecv # "late_disc")
    /\ UNCHANGED <<dQueue, dNotified, dSend, dSent, dTaken, dOk>>
    /\ UNCHANGED <<dTxLive, rqItem, rqCalls, rqLog, rqSpawned, rqErrors>>
    /\ UNCHANGED <<tmVars, gateVars, trigVars, srvVars>>
    /\ UNCHANGED <<connVars, cmpVars, dgVars>>

\* What the handler and the seed factory make of a request: the handler
\* answers None, or Some(output) that translate turns into Ok(seed) or Err.
Outcomes == {"None", "Ok", "Err"}

\* A plausible slip: the error arm leaves the loop and returns Response::ok.
ProcessNext_ErrorReturns(outcome) ==
    CASE outcome = "Ok" -> "spawned"
      [] outcome = "Err" -> "idle"
      [] OTHER -> "store"

\* Where process_requests goes after a request: Response::spawn returns it
\* to the reactor, which calls spawned; otherwise the loop calls try_recv
\* again.
ProcessNext(outcome) ==
    IF outcome = "Ok" THEN "spawned" ELSE "store"

\* Req::process_requests, the arm Ok(Some(request)) of the match.
Req_process_requests_request ==
    /\ rqMachine = "req"
    /\ dRecv = "got"
    /\ \E outcome \in Outcomes :
         /\ rqLog' = Append(rqLog, [id |-> rqItem, outcome |-> outcome,
                                    cb |-> rqCalls])
         /\ rqSpawned' = IF outcome = "Ok" THEN Append(rqSpawned, rqItem)
                         ELSE rqSpawned
         /\ rqErrors' = IF outcome = "Err" THEN Append(rqErrors, rqItem)
                        ELSE rqErrors
         /\ dRecv' = ProcessNext(outcome)
    /\ rqItem' = 0
    /\ UNCHANGED ductVarsButRecv
    /\ UNCHANGED <<rqMachine, dTxLive, rqCalls>>
    /\ UNCHANGED <<tmVars, gateVars, trigVars, srvVars>>
    /\ UNCHANGED <<connVars, cmpVars, dgVars>>

Req_process_requests ==
    \/ Req_try_recv_store
    \/ Req_try_recv_rx
    \/ Req_try_recv_rx_early
    \/ Req_try_recv_store_late
    \/ Req_process_requests_request

\* A thread sends a request on its clone of the DuctSender.
ReqSend(s) ==
    /\ s \in dTxLive
    /\ dSend[s].pc = "idle" => dSent < MaxRequests
    /\ DuctSender_send(s)

\* A thread drops its clone of the DuctSender.
DuctSenderDrop(s) ==
    /\ s \in dTxLive
    /\ dSend[s].pc = "idle"
    /\ dTxLive' = dTxLive \ {s}
    /\ UNCHANGED <<rqMachine, rqItem, rqCalls, rqLog, rqSpawned, rqErrors>>
    /\ UNCHANGED <<tmVars, ductVars, gateVars, trigVars, srvVars>>
    /\ UNCHANGED <<connVars, cmpVars, dgVars>>

\* A plausible slip: the Response::ok of process_requests is given a
\* deadline.
ReqArms_Deadline(ret) ==
    [sockets |-> 0, deadline |-> IF ret = "ok" THEN 0 ELSE NoTime]

\* What a Response of the request flavour leaves with the reactor:
\* RequestMachine::new only builds a duct from scope.notifier() and
\* process_requests only reads it, neither registers a socket, and
\* Response::ok, ::spawn and ::done are returned without .deadline().
ReqArms(ret) == [sockets |-> 0, deadline |-> NoTime]

\* RequestMachine::ready for the request flavour:
\* unreachable!("Request handler can't be ready").
RequestMachine_ready ==
    /\ rqMachine' = "panic_ready"
    /\ UNCHANGED <<dTxLive, rqItem, rqCalls, rqLog, rqSpawned, rqErrors>>

\* RequestMachine::timeout for the request flavour:
\* unreachable!("Request handler can't time out").
RequestMachine_timeout ==
    /\ rqMachine' = "panic_timeout"
    /\ UNCHANGED <<dTxLive, rqItem, rqCalls, rqLog, rqSpawned, rqErrors>>

\* The reactor looks at its sockets and timers for the machine that
\* returned Response::ok: ready needs a registered socket, timeout needs a
\* deadline.
ReqReactor ==
    /\ rqMachine = "req"
    /\ dRecv = "idle"
    /\ IF ReqArms("ok").sockets > 0 THEN RequestMachine_ready
       ELSE IF ReqArms("ok").deadline # NoTime THEN RequestMachine_timeout
       ELSE UNCHANGED reqVars
    /\ UNCHANGED <<tmVars, ductVars, gateVars, trigVars, srvVars>>
    /\ UNCHANGED <<connVars, cmpVars, dgVars>>

ReqNext ==
    \/ RequestMachine_wakeup
    \/ RequestMachine_spawned
    \/ Req_process_requests
    \/ ReqReactor
    \/ \E s \in DuctSenders : ReqSend(s)
    \/ \E s \in DuctSenders : DuctSenderDrop(s)

\* -------------------------------------- examples/pinkyd.rs: DgramHandler
\* TransportHandler::create: Next::read with `send: None`.
DgInit ==
    /\ dgMachine = "live"
    /\ dgSend = 0
    /\ dgInterest = "Read"
    /\ dgOut = <<>>

\* What sock.send_to and sock.recv_from return: Ok(Some(_)), Ok(None), Err(_).
SockResults == {"Some", "None", "Err"}

\* DgramHandler::next: read_and_write while a response is held in `send`.
DgramHandler_next(send) == IF send # 0 THEN "ReadWrite" ELSE "Read"

\* The hook returned Next::remove(): the machine ends, and the handler is
\* dropped with its DuctReceiver and what it holds.
DgRemoved ==
    /\ dgMachine' = "removed"
    /\ dgSend' = 0
    /\ dRxAlive' = FALSE
    /\ dQueue' = <<>>
    /\ UNCHANGED <<dgInterest, dTaken>>

\* The flag of the duct after a hook: cleared if the hook called try_recv.
DgFlag(called) ==
    /\ dAwake' = (IF called THEN FALSE ELSE dAwake)
    /\ dSentSince' = (IF called THEN 0 ELSE dSentSince)
    /\ dWakeSince' = (IF called THEN 0 ELSE dWakeSince)
    /\ dQuiet' = (IF called THEN \A s \in DuctSenders : dSend[s].pc = "idle"
                  ELSE dQuiet)

\* TransportHandler::readable: recv_from; a reply to what was received comes
\* through the duct later, from the handler's own DuctSender or from the
\* clone given to the processor (the DuctSenders above).
DgramHandler_readable ==
    /\ dgMachine = "live"
    /\ \E recv \in SockResults :
         IF recv = "Err"
         THEN DgRemoved /\ UNCHANGED dgOut
         ELSE /\ dgInterest' = Join(dgInterest, DgramHandler_next(dgSend))
              /\ UNCHANGED <<dgMachine, dgSend, dgOut, dQueue, dRxAlive,
                             dTaken>>
    /\ DgFlag(FALSE)
    /\ UNCHANGED <<dNotified, dSend, dRecv, dSent, dOk>>
    /\ UNCHANGED <<tmVars, gateVars, trigVars, srvVars, reqVars>>
    /\ UNCHANGED <<connVars, cmpVars>>

\* TransportHandler::wakeup, `if let Ok(Some(..)) = self.rx.try_recv()
\* { self.send = Some(..) }`: the field after the hook.
DgramHandler_wakeup_take(send, queue) ==
    IF queue # <<>> THEN Head(queue) ELSE send

\* TransportHandler::wakeup, delivered for a wakeup a DuctSender queued.
DgramHandler_wakeup ==
    /\ dgMachine = "live"
    /\ dNotified > 0
    /\ dNotified' = dNotified - 1
    /\ dgSend' = DgramHandler_wakeup_take(dgSend, dQueue)
    /\ dQueue' = IF dQueue # <<>> THEN Tail(dQueue) ELSE dQueue
    /\ dTaken' = IF dQueue # <<>> THEN dTaken + 1 ELSE dTaken
    /\ dgInterest' = Join(dgInterest, DgramHandler_next(dgSend'))
    /\ DgFlag(TRUE)
    /\ UNCHANGED <<dgMachine, dgOut, dRxAlive, dSend, dRecv, dSent, dOk>>
    /\ UNCHANGED <<tmVars, gateVars, trigVars, srvVars, reqVars>>
    /\ UNCHANGED <<connVars, cmpVars>>

\* TransportHandler::writable, delivered while the machine's interest has
\* Write: send_to for the response held in `send` (result `first`), then the
\* loop on try_recv, in which n responses are accepted and, if the duct has
\* more, the next gets `last`, which is Ok(None) or Err(_).
DgramHandler_writable ==
    /\ dgMachine = "live"
    /\ dgInterest = "ReadWrite"
    /\ \E first \in SockResults, last \in SockResults, n \in 0..Len(dQueue) :
         LET held == dgSend # 0
             firstErr == held /\ first = "Err"
             kept == IF held /\ first = "None" THEN dgSend ELSE 0
             out1 == IF held /\ first = "Some" THEN Append(dgOut, dgSend)
                     ELSE dgOut
             more == n < Len(dQueue)
         IN  /\ ~held => first = "Some"
             /\ firstErr => (n = 0 /\ last = "Some")
             /\ (~firstErr /\ more) => last # "Some"
             /\ (~firstErr /\ ~more) => last = "Some"
             /\ DgFlag(~firstErr)
             /\ dgOut' = IF firstErr THEN dgOut
                         ELSE out1 \o SubSeq(dQueue, 1, n)
             /\ IF firstErr \/ (more /\ last = "Err")
                THEN DgRemoved
                ELSE /\ dgSend' = IF more THEN dQueue[n + 1] ELSE kept
                     /\ dQueue' = IF more
                                  THEN SubSeq(dQueue, n + 2, Len(dQueue))
                                  ELSE <<>>
                     /\ dTaken' = dTaken + (IF more THEN n + 1 ELSE n)
                     /\ dgInterest' =
                          Join(dgInterest, DgramHandler_next(dgSend'))
                     /\ UNCHANGED <<dgMachine, dRxAlive>>
    /\ UNCHANGED <<dNotified, dSend, dRecv, dSent, dOk>>
    /\ UNCHANGED <<tmVars, gateVars, trigVars, srvVars, reqVars>>
    /\ UNCHANGED <<connVars, cmpVars>>

DgNext ==
    \/ \E s \in DuctSenders : DuctSender_send(s)
    \/ DgramHandler_readable
    \/ DgramHandler_wakeup
    \/ DgramHandler_writable

\* ----------------------------------------------------------- specifications
Init ==
    /\ TMInit /\ DuctInit /\ GateInit /\ TrigInit /\ SrvInit /\ ReqInit
    /\ ConnInit /\ CmpInit /\ DgInit

Next == TMNext

Spec == Init /\ [][Next]_vars

SpecDuct == Init /\ [][DuctNext]_vars

SpecGate == Init /\ [][GateNext]_vars

SpecTrigger == Init /\ [][TrigNext]_vars

SpecServer == Init /\ [][SrvNext]_vars

SpecRequest == Init /\ [][ReqNext]_vars

SpecConn == Init /\ [][ConnNext]_vars

SpecDgram == Init /\ [][DgNext]_vars

SpecCompose == Init /\ [][CmpNext]_vars

\* ------------------------------------------------- claims on Next and Intent
\* The folds the last callback made with Intent::merge.
Merges == {i \in DOMAIN calls : calls[i].hook # "create"}

Callbacks == {"ready", "timeout", "wakeup"}

\* C1: Remove is absorbing. A fold that receives Next::remove() yields no
\* Intent, it is the last fold of its callback and the machine is done; a
\* machine that is done stays done, has no Intent and no hook of it runs.
C1_RemoveAbsorbing ==
    [][ /\ \A i \in DOMAIN calls' :
             calls'[i].next.interest = "Remove"
               => /\ calls'[i].res = NoIntent
                  /\ i = Len(calls')
                  /\ machine' = "done"
                  /\ intent' = NoIntent
        /\ machine = "done"
             => machine' = "done" /\ intent' = NoIntent /\ calls' = <<>>
      ]_vars

\* A ready callback whose read hook asked to go on and whose write hook then
\* answered Next::remove().
C1_Witness ==
    /\ callback = "ready"
    /\ machine = "done"
    /\ Len(calls) = 2
    /\ calls[1].next.interest = "Read"
    /\ calls[2].next.interest = "Remove"

\* C2: the interest that Intent::merge computes is a commutative, idempotent
\* join: the same with the operands exchanged, X for (X, X), ReadWrite for
\* Read with Write in either order and whenever one side is ReadWrite, and
\* the other side whenever one side is Wait.
C2_JoinTable ==
    \A i \in Merges :
      LET a == calls[i].pre.interest
          b == calls[i].next.interest
          r == calls[i].res.interest
      IN  b # "Remove" =>
            /\ r = Join(b, a)
            /\ a = b => r = a
            /\ {a, b} = {"Read", "Write"} => r = "ReadWrite"
            /\ "ReadWrite" \in {a, b} => r = "ReadWrite"
            /\ a = "Wait" => r = b
            /\ b = "Wait" => r = a

\* One callback folded Write into Read and then Read into the result.
C2_Witness ==
    /\ Len(calls) = 2
    /\ calls[1].pre.interest = "Read" /\ calls[1].next.interest = "Write"
    /\ calls[1].res.interest = "ReadWrite"
    /\ calls[2].next.interest = "Read"
    /\ calls[2].res.interest = "ReadWrite"

\* C3: the deadline after Intent::merge of a non-Remove Next with timeout t
\* at time now into an Intent with deadline d0 is the smaller of d0 and
\* now + t when both are there, now + t when only t is, and d0 when t is not.
C3_DeadlineAfterFold ==
    \A i \in Merges :
      LET d0 == calls[i].pre.deadline
          t == calls[i].next.timeout
          at == calls[i].now
          d == calls[i].res.deadline
      IN  calls[i].next.interest # "Remove" =>
            /\ (d0 # NoTime /\ t # NoTime) =>
                  /\ d \in {d0, at + t}
                  /\ d <= d0
                  /\ d <= at + t
            /\ (d0 = NoTime /\ t # NoTime) => d = at + t
            /\ t = NoTime => d = d0

\* A wakeup callback whose answer carries a timeout that ends before the
\* pending deadline: the fold shrinks the deadline.
C3_Witness ==
    /\ callback = "wakeup"
    /\ \E i \in Merges :
         /\ calls[i].pre.deadline # NoTime
         /\ calls[i].next.timeout # NoTime
         /\ calls[i].now + calls[i].next.timeout < calls[i].pre.deadline
         /\ calls[i].res.deadline = calls[i].now + calls[i].next.timeout

\* ----------------------------------------------- claims on the sum machines
\* The branch that belongs to a seed tag.
SeedBranch ==
    {<<"As", "A">>, <<"Bs", "B">>, <<"Cs", "C">>,
     <<"Tcp", "Tcp">>, <<"Udp", "Udp">>}

C8_ReadThenWriteOnly ==
    [][ ( /\ machine = "live" /\ blocked = "None"
          /\ nRegister = 1 /\ nReregister = 0
          /\ intent = Intent_make("Read", NoTime)
          /\ registered = {"readable"}
          /\ callback' = "ready"
          /\ Len(calls') = 1
          /\ calls'[1].hook = "readable"
          /\ calls'[1].next = Next_new("Write")
          /\ blocked' = "None"
          /\ machine' = "live" )
        => ( /\ nRegister' = 1
             /\ nReregister' = 1
             /\ registered' = {"writable"} )
      ]_vars

\* C9: a callback whose fold yields Remove has deregistered the socket once
\* and then invoked the handler's on_remove once, as its last hook.
C9_TeardownOnce ==
    (machine = "done" /\ callback \in Callbacks)
      => /\ nDeregister = 1
         /\ Cardinality({i \in DOMAIN calls : calls[i].hook = "remove"}) = 1
         /\ calls[Len(calls)].hook = "remove"

\* The place of a hook in the order error, read, write.
HookRank(hook) ==
    CASE hook = "error" -> 1
      [] hook = "readable" -> 2
      [] hook = "writable" -> 3
      [] OTHER -> 0

\* C10: one ready callback invokes the hooks error, read, write in this
\* order, each at most once, and a hook that answers Remove is the last one
\* invoked and ends the machine.
C10_HookOrder ==
    callback = "ready" =>
      /\ \A i \in DOMAIN calls : HookRank(calls[i].hook) > 0
      /\ \A i, j \in DOMAIN calls :
           i < j => HookRank(calls[i].hook) < HookRank(calls[j].hook)
      /\ \A i \in DOMAIN calls :
           calls[i].next.interest = "Remove"
             => i = Len(calls) /\ machine = "done"

\* Readable and writable were delivered to an unblocked socket, the read hook
\* answered Remove and the write hook was not invoked.
C10_Witness ==
    /\ callback = "ready"
    /\ delivered = {"readable", "writable"}
    /\ blocked = "None"
    /\ Len(calls) = 1
    /\ calls[1].hook = "readable"
    /\ calls[1].next.interest = "Remove"
    /\ machine = "done"

\* C11: in a ready callback delivered while the socket reports no block, the
\* read hook is invoked if the event set has readable and the write hook if
\* it has writable, unless an earlier fold of the callback yielded Remove;
\* also when the event set carries a socket error that the handler survived.
C11_DispatchAll ==
    [][ (callback' = "ready" /\ blocked = "None") =>
          \A h \in {"readable", "writable"} :
            h \in delivered' =>
              \/ \E i \in DOMAIN calls' : calls'[i].hook = h
              \/ \E i \in DOMAIN calls' :
                   /\ HookRank(calls'[i].hook) < HookRank(h)
                   /\ calls'[i].res = NoIntent
      ]_vars

\* C22: a creation hook that answers Next::remove() ends the creation with
\* no register call; any other answer makes one register call, for the
\* events of the new Intent: none for Wait, readable for Read, writable for
\* Write and both for ReadWrite. No later callback registers again.
C22_RegisterAtCreation ==
    /\ nRegister <= 1
    /\ machine = "live" => nRegister = 1
    /\ callback = "create" =>
         LET next == calls[1].next
         IN  IF next.interest = "Remove"
             THEN machine = "done" /\ nRegister = 0 /\ registered = {}
             ELSE /\ nRegister = 1
                  /\ machine \in {"live", "error"}
                  /\ machine = "error" => registered = {}
                  /\ machine = "live" =>
                       /\ intent.interest = next.interest
                       /\ registered =
                            CASE next.interest = "Wait" -> {}
                              [] next.interest = "Read" -> {"readable"}
                              [] next.interest = "Write" -> {"writable"}
                              [] OTHER -> {"readable", "writable"}

\* A machine created with Next::wait() on a socket that reports a read
\* block is registered for no events.
C22_Witness ==
    /\ callback = "create"
    /\ machine = "live"
    /\ calls[1].next.interest = "Wait"
    /\ blocked = "Read"
    /\ nRegister = 1
    /\ registered = {}

C24_BlockedOverride ==
    [][ (nReregister' = nReregister + 1 /\ machine' = "live") =>
          /\ registered' =
               CASE blocked' = "Read" -> {"readable"}
                 [] blocked' = "Write" -> {"writable"}
                 [] intent'.interest = "Wait" -> {}
                 [] intent'.interest = "Read" -> {"readable"}
                 [] intent'.interest = "Write" -> {"writable"}
                 [] OTHER -> {"readable", "writable"}
          /\ intent' = IF calls' = <<>> THEN intent
                       ELSE calls'[Len(calls')].res
          /\ \A i \in DOMAIN calls' :
               /\ calls'[i].pre = IF i = 1 THEN intent ELSE calls'[i - 1].res
               /\ calls'[i].res.interest
                    = Join(calls'[i].pre.interest, calls'[i].next.interest)
      ]_vars

\* A wakeup on a read-blocked socket whose handler wants to write: the
\* socket is registered for readable and the Intent still says Write.
C24_Witness ==
    /\ callback = "wakeup"
    /\ machine = "live"
    /\ blocked = "Read"
    /\ intent.interest = "Write"
    /\ intent.deadline # NoTime
    /\ registered = {"readable"}

Invoked(cs, hook) == \E i \in DOMAIN cs : cs[i].hook = hook

\* A ready callback is delivered to a machine whose socket reports a block,
\* and no socket error is routed to the error hook.
ReadyWhileBlocked(cs) ==
    /\ callback = "none"
    /\ callback' = "ready"
    /\ blocked # "None"
    /\ ~Invoked(cs, "error")

\* C29 as stated: in a ready callback on a blocked socket the read hook is
\* invoked exactly if the Intent includes read and the write hook exactly
\* if it includes write, whatever events were delivered.
C29_DispatchByIntent ==
    [][ ReadyWhileBlocked(calls') =>
          /\ Invoked(calls', "readable")
                <=> intent.interest \in {"Read", "ReadWrite"}
          /\ Invoked(calls', "writable")
                <=> intent.interest \in {"Write", "ReadWrite"}
      ]_vars

\* C29, amended: the read hook is invoked exactly if the Intent includes
\* read, and the write hook exactly if the Intent includes write and the
\* read hook, if invoked, did not answer Next::remove().
C29_DispatchByIntentUnlessRemoved ==
    [][ ReadyWhileBlocked(calls') =>
          /\ Invoked(calls', "readable")
                <=> intent.interest \in {"Read", "ReadWrite"}
          /\ Invoked(calls', "writable")
                <=> /\ intent.interest \in {"Write", "ReadWrite"}
                    /\ ~\E i \in DOMAIN calls' :
                          /\ calls'[i].hook = "readable"
                          /\ calls'[i].next.interest = "Remove"
      ]_vars

\* Only writable was delivered, and the read hook and then the write hook
\* were invoked: the socket was blocked and the Intent was ReadWrite.
C29_Witness ==
    /\ callback = "ready"
    /\ delivered = {"writable"}
    /\ Len(calls) = 2
    /\ calls[1].hook = "readable"
    /\ calls[1].pre.interest = "ReadWrite"
    /\ calls[2].hook = "writable"

\* C30: a ready callback delivered for events the socket is registered for,
\* on a socket that reports a block, invokes the read hook or the write
\* hook, whatever the Intent's interest is.
C30_ProgressUnderBlock ==
    [][ (ReadyWhileBlocked(calls') /\ delivered' \cap registered # {}) =>
          (Invoked(calls', "readable") \/ Invoked(calls', "writable"))
      ]_vars

\* The interest includes read; the interest includes write.
WantsRead(interest) == interest \in {"Read", "ReadWrite"}

WantsWrite(interest) == interest \in {"Write", "ReadWrite"}

C32_ExpiredDeadlineNotRearmed ==
    [][ ( /\ callback = "none"
          /\ callback' = "timeout"
          /\ machine' = "live"
          /\ calls'[1].next.timeout # NoTime )
        => intent'.deadline >= now
      ]_vars

\* C39: scope.register is called once, by the creation, before any callback;
\* every later change is one scope.reregister per callback, made only by a
\* callback that keeps the machine; and a failure of either call ends this
\* machine with an error response and touches nothing else.
C39_RegisterOnceThenReregister ==
    [][ /\ nRegister' \in {0, 1}
        /\ nRegister' # nRegister
             => /\ machine = "seed"
                /\ callback' = "create"
                /\ nReregister' = 0
        /\ machine' \in {"live", "error"} => nRegister' = 1
        /\ nReregister' \in {nReregister, nReregister + 1}
        /\ nReregister' # nReregister
             => /\ machine = "live"
                /\ callback = "none"
                /\ callback' \in {"ready", "timeout", "wakeup"}
                /\ machine' \in {"live", "error"}
                /\ nRegister' = nRegister
        /\ (callback = "none" /\ callback' \in {"ready", "timeout", "wakeup"})
             => IF machine' = "done" THEN nReregister' = nReregister
                ELSE nReregister' = nReregister + 1
        /\ (machine' = "error" /\ machine # "error")
             => /\ nRegister' + nReregister' = nRegister + nReregister + 1
                /\ registered' = registered
                /\ <<ductVars, gateVars, trigVars, srvVars, reqVars>>' =
                     <<ductVars, gateVars, trigVars, srvVars, reqVars>>
                /\ <<connVars, cmpVars>>' = <<connVars, cmpVars>>
      ]_vars

\* A machine registered at creation has re-registered in its first callback
\* and ended with an error when the re-register of its second failed.
C39_Witness ==
    /\ machine = "error"
    /\ nRegister = 1
    /\ nReregister = 2
    /\ callback = "wakeup"

\* ------------------------------------------------- claims on ServerMachine
\* The answers of the accept handler that carried a seed.
SrvAccepted == SelectSeq(srvLog, LAMBDA e : e.seed # 0)

\* C12: the listener spawns one machine for each connection its accept
\* handler answered with a seed, with that connection's socket and that
\* seed, and none for a connection the handler declined; after an accept
\* that returned a connection the machine is still Listening.
C12_SpawnPerAccept ==
    /\ Len(srvSpawned) = Len(SrvAccepted)
    /\ \A i \in DOMAIN srvSpawned :
         /\ srvSpawned[i].sock = SrvAccepted[i].conn
         /\ srvSpawned[i].seed = SrvAccepted[i].seed
    /\ \A i, j \in DOMAIN srvSpawned :
         i # j => srvSpawned[i].sock # srvSpawned[j].sock
    /\ srvLast.res = "conn" => srvMachine = "Listening"

\* Three connections were accepted and spawned and one was declined; the
\* listener is Listening.
C12_Witness ==
    /\ srvMachine = "Listening"
    /\ Len(srvSpawned) = 3
    /\ Len(srvLog) = 4
    /\ srvLast.cb = "spawned"
    /\ srvLast.res = "none"

\* C13: after an error of accept() the listener is still Listening.
C13_AcceptErrorSurvived ==
    srvLast.res = "err" => srvMachine = "Listening" /\ srvLast.ret = "ok"

\* C14: once the trigger's flag is set, no callback of the listener calls
\* accept() or spawns a machine.
C14_NoAcceptAfterTrigger ==
    (srvLast.cb \in {"ready", "spawned", "wakeup"} /\ srvLast.fired)
      => srvLast.res = "skipped" /\ srvLast.ret # "spawn"

\* C15: a wakeup queued by trigger() finds the flag set when it is
\* delivered; a wakeup callback that finds the flag set returns done and ends
\* the listener, one that finds it clear returns ok and leaves it Listening.
C15_WakeupEndsListener ==
    srvLast.cb = "wakeup" =>
      /\ srvLast.queued => srvLast.fired
      /\ srvLast.fired => srvMachine = "done" /\ srvLast.ret = "done"
      /\ ~srvLast.fired => srvMachine = "Listening" /\ srvLast.ret = "ok"

\* The wakeup queued by a trigger() call was delivered and ended a listener
\* that had accepted a connection before.
C15_Witness ==
    /\ srvLast.cb = "wakeup"
    /\ srvLast.queued
    /\ srvMachine = "done"
    /\ Len(srvSpawned) >= 1
    /\ tSend[1].ret = "Ok"

\* C27: the flavours are closed under the callbacks: the listener is
\* Listening or ended after each of its callbacks, never Connected, and a
\* machine created from a seed is Connected or ended after its creation
\* and after each of its callbacks, never Listening.
C27_FlavoursClosed ==
    /\ srvMachine \in {"new", "Listening", "done", "error"}
    /\ \A i \in DOMAIN srvConns :
         srvConns[i].flavour \in {"Connected", "done", "error"}

\* The listener has spawned two machines and is still Listening; the first
\* is Connected after a timeout callback, the second ended in ready.
C27_Witness ==
    /\ srvMachine = "Listening"
    /\ srvLast.cb = "spawned"
    /\ Len(srvConns) = 2
    /\ srvConns[1] = [flavour |-> "Connected", cb |-> "timeout"]
    /\ srvConns[2] = [flavour |-> "done", cb |-> "ready"]

\* C28: the accepting that a readiness delivery starts, through ready and
\* the spawned callbacks that follow, ends with Response::ok only when
\* accept() reported nothing pending: no connection is then left waiting,
\* also after a connection the handler declined or an accept error.
C28_AcceptUntilNonePending ==
    [][ ( /\ ServerMachine_ready \/ ServerMachine_spawned
          /\ srvMachine' = "Listening"
          /\ srvPhase' = "idle" )
        => srvBacklog' = <<>>
      ]_vars

C20_ClosedIsReported ==
    [][ ( /\ srvMachine \in {"done", "error"}
          /\ tSend[1].pc = "idle"
          /\ tSend'[1] # tSend[1] )
        => ( /\ tSend'[1].pc = "idle"
             /\ tSend'[1].ret \notin {"Ok", "WakeupError", "none"} )
      ]_vars

\* ------------------------------------------------------- claims on the duct
NoSendUnderWay == \A s \in DuctSenders : dSend[s].pc = "idle"

\* C4: from a clear flag, the sends made until the next try_recv call the
\* notifier's wakeup once if there are any and not at all if there are
\* none; each try_recv clears the flag and starts the count again. (Of the
\* sends that do not overlap the clearing, once they have returned.)
C4_OneWakeupPerBurst ==
    (dQuiet /\ NoSendUnderWay)
      => dWakeSince = (IF dSentSince > 0 THEN 1 ELSE 0)

\* After a drain that took an item, a burst of two sends has made one wakeup
\* call.
C4_Witness ==
    /\ dQuiet /\ NoSendUnderWay
    /\ dTaken >= 1
    /\ dRecv = "idle"
    /\ dSentSince = 2
    /\ dWakeSince = 1

\* An item whose send returned Ok is in the channel, the receiver is not
\* draining, no wakeup is queued for it and no send is under way.
LostWakeup ==
    /\ dRxAlive
    /\ dRecv = "idle"
    /\ dNotified = 0
    /\ NoSendUnderWay
    /\ \E i \in DOMAIN dQueue : dQueue[i] \in dOk

\* C5: no wakeup of the duct is lost.
C5_NoLostWakeup == ~LostWakeup

\* The flag is set, so every later send skips its wakeup, while an item
\* whose send returned Ok waits in the channel of an idle receiver and no
\* wakeup is queued or about to be.
SuppressedByFailedWakeup ==
    /\ dAwake
    /\ dRxAlive
    /\ dRecv = "idle"
    /\ dNotified = 0
    /\ NoSendUnderWay
    /\ \E i \in DOMAIN dQueue : dQueue[i] \in dOk

\* C35: a wakeup call that failed does not leave the flag set so that the
\* sends after it skip their wakeup: an enqueued item always has a
\* successfully issued wakeup queued or coming.
C35_FailedWakeupNotSuppressing == ~SuppressedByFailedWakeup

\* C38: a send made once the receiver is dropped returns SendError with the
\* value it was given, makes no wakeup call, and leaves the flag and the
\* queue as they were.
C38_SendToDroppedReceiver ==
    [][ (~dRxAlive /\ dSent' = dSent + 1)
          => /\ \E s \in DuctSenders :
                  /\ dSend[s].pc = "idle"
                  /\ dSend'[s] = Returned("SendError", dSent + 1)
             /\ dNotified' = dNotified
             /\ dWakeSince' = dWakeSince
             /\ dAwake' = dAwake
             /\ dQueue' = dQueue
             /\ dOk' = dOk ]_vars

\* A send has returned SendError on a duct whose receiver was dropped with
\* the flag clear after it had taken an item: the flag is still clear and
\* the one wakeup of the first send is the only one made.
C38_Witness ==
    /\ ~dRxAlive
    /\ \E s \in DuctSenders : dSend[s] = Returned("SendError", 2)
    /\ dTaken = 1
    /\ ~dAwake
    /\ dQueue = <<>>
    /\ dOk = {1}

\* ------------------------------------------------------- claims on the gate
\* The try_get calls made once send had stored its value.
PollsAfterStore == {i \in DOMAIN gPolls : gPolls[i].stored}

\* C6: a try_get made before the send returns nothing; of those made after
\* send(v) the first returns v and every later one nothing, so v is yielded
\* at most once.
C6_GateHandoff ==
    /\ \A i \in DOMAIN gPolls : ~gPolls[i].stored => gPolls[i].got = 0
    /\ \A i \in PollsAfterStore :
         gPolls[i].got = (IF \A j \in PollsAfterStore : i <= j
                          THEN gValue ELSE 0)
    /\ gValue # 0 => Cardinality({i \in DOMAIN gPolls : gPolls[i].got = gValue}) <= 1

\* A try_get before the send, then the send, then two more try_get calls.
C6_Witness ==
    /\ Len(gPolls) = 3
    /\ ~gPolls[1].stored /\ gPolls[1].got = 0
    /\ gPolls[2].stored /\ gPolls[2].got = gValue /\ gValue # 0
    /\ gPolls[3].stored /\ gPolls[3].got = 0

\* The value of the send has reached the receiver's side: it is in the slot
\* or one of the first n try_get calls returned it.
GateDelivered(n) ==
    \/ n = Len(gPolls) /\ gItem = gValue
    \/ \E j \in 1..n : gPolls[j].got = gValue

NoTriggerUnderWay == \A s \in TrigSenders : tSend[s].pc = "idle"

\* C7: once a trigger call has returned, triggered() is true; at most one
\* wakeup call is ever made, by the call whose swap came first; and when
\* k >= 1 calls have returned and none is under way, exactly one was made.
C7_TriggerOnce ==
    /\ tReturned >= 1 => TriggerReceiver_triggered
    /\ tWakeCalls <= 1
    /\ tWakeCalls = 1 => tWaker = 1
    /\ (tReturned >= 1 /\ NoTriggerUnderWay) => tWakeCalls = 1

\* Three trigger calls have returned and one wakeup call was made, by the
\* call that swapped first.
C7_Witness ==
    /\ tReturned = 3
    /\ NoTriggerUnderWay
    /\ tWakeCalls = 1
    /\ tWaker = 1
    /\ tFlag

\* C26 (for the trigger): a failure of the notifier's wakeup call is dropped
\* by the primitive; no trigger() call returns it to its caller.
C26_WakeupFailureDropped ==
    \A s \in TrigSenders : tSend[s].ret # "WakeupError"

\* C36: once a trigger() call has returned Ok, a wakeup has been issued
\* successfully or a call that will issue one is under way, whether or not
\* an earlier wakeup call failed.
C36_OkMeansWoken ==
    (\E s \in TrigSenders : tSend[s].pc = "idle" /\ tSend[s].ret = "Ok")
      => (tIssued >= 1 \/ \E s \in TrigSenders : tSend[s].pc = "wakeup")

\* ----------------------------------------------- claims on the RequestMachine
Handled == {rqLog[i].id : i \in DOMAIN rqLog}

\* Nothing is left that could call the machine: no send is under way, no
\* wakeup is queued and no callback is running or due.
ReqQuiescent ==
    /\ NoSendUnderWay
    /\ dNotified = 0
    /\ dRecv = "idle"

\* C16: once every DuctSender clone is dropped and the queue is processed,
\* the request-handling machine terminates without a further send: when
\* nothing is left to happen, no sender and no queued request remain, the
\* machine is done.
C16_EndsWhenSendersGone ==
    (ReqQuiescent /\ dTxLive = {} /\ dQueue = <<>>) => rqMachine = "done"

\* C17: the request-handling machine never terminates while a DuctSender
\* clone of its duct exists; its callbacks return ok or spawn, never done.
C17_AliveWhileSender ==
    dTxLive # {} => (rqMachine = "req" /\ dRxAlive)

\* A second callback has found the queue empty and returned Response::ok
\* with a sender still alive, after a request was handled.
C17_Witness ==
    /\ rqMachine = "req"
    /\ dTxLive # {}
    /\ dRecv = "idle"
    /\ dQueue = <<>>
    /\ rqCalls >= 2
    /\ Len(rqLog) >= 1

\* C18: every request whose send returned Ok is passed to the handler once,
\* in the order sent, before the machine terminates; a machine is spawned
\* for exactly the requests with a seed; draining goes on until the queue
\* is empty.
C18_EveryRequestHandled ==
    /\ \A i \in DOMAIN rqLog : rqLog[i].id = i
    /\ rqSpawned = SelectSeq([i \in DOMAIN rqLog |-> rqLog[i].id],
                             LAMBDA id : rqLog[id].outcome = "Ok")
    /\ rqMachine = "done" => dOk \subseteq Handled
    /\ ReqQuiescent => dOk \subseteq Handled

\* C19: when translate fails for a request, handler.error is called once
\* with it, nothing is spawned for it, the machine stays in its
\* request-handling state and the same callback calls try_recv again.
C19_TranslateErrorContinues ==
    [][ ( /\ Len(rqLog') = Len(rqLog) + 1
          /\ rqLog'[Len(rqLog')].outcome = "Err" )
        => ( /\ rqErrors' = Append(rqErrors, rqItem)
             /\ rqItem \notin {rqErrors[i] : i \in DOMAIN rqErrors}
             /\ rqSpawned' = rqSpawned
             /\ rqMachine' = "req"
             /\ rqCalls' = rqCalls
             /\ dRecv' = "store" )
      ]_vars

\* A request whose translation failed was followed by the next request in
\* the same callback.
C19_Witness ==
    /\ Len(rqLog) = 2
    /\ rqLog[1].outcome = "Err"
    /\ rqLog[2].cb = rqLog[1].cb
    /\ rqErrors = <<1>>
    /\ rqSpawned = <<>>

C40_EveryResponseSentOnce ==
    dgMachine = "live"
      => /\ \A r \in 1..dSent :
              \/ \E i \in DOMAIN dQueue : dQueue[i] = r
              \/ dgSend = r
              \/ \E i \in DOMAIN dgOut : dgOut[i] = r
         /\ \A i, j \in DOMAIN dgOut : dgOut[i] = dgOut[j] => i = j

====
